---- MODULE Spec2Model ----
(***************************************************************************)
(* A model of the cs-grader command line tool (src/cli.py) and of the      *)
(* grading call it makes (src/grader/__init__.py).                         *)
(*                                                                         *)
(* Spec     the grade command: validation, discovery, the thread pool of   *)
(*          process_submission units, the result queue, the sorts and the  *)
(*          CSV write.                                                     *)
(* FairSpec the runs of Spec with valid arguments, with the fairness of    *)
(*          the thread scheduler.                                          *)
(* HangSpec the runs of FairSpec in which one oracle call may never        *)
(*          return.                                                        *)
(* ZipSpec  process_zip_file applied to bounded archives.                  *)
(* OutputPathSpec  the output path grade computes from its arguments.      *)
(* WriterSpec  write_results called twice on a bounded list of results.    *)
(* LockSpec  two pipelines writing to the same path through write_safely.  *)
(* CollectSpec  the collect command over two Brightspace directories.      *)
(* NameSpec  extract_student_name and split_name on eligible file names.   *)
(* RenameSpec  the rename command, with the answers of analyze_filename.   *)
(*                                                                         *)
(* File names and student names are sequences of one-character strings, so *)
(* that suffix, stem, replace, strip/split and the string order are        *)
(* computed as Python computes them.  Free text is a TLA+ string.          *)
(***************************************************************************)
EXTENDS Integers, Sequences, FiniteSets, TLC

VARIABLES
    args,          \* the grade command's arguments and what they point at
    outFile,       \* the output CSV: NoFile, or its records
    outFile0,      \* ghost: the output CSV before the command ran
    pc,            \* the main thread's position in grade()
    exitCode,      \* the exit status: 1 after typer.Exit(1), otherwise 0
    echo,          \* the last message typer.echo printed
    submissions,   \* the list find_submissions returned
    discoveryRuns, \* ghost: how many times find_submissions was run
    nextSubmit,    \* index of the next submission to hand to executor.submit
    workQueue,     \* the executor's FIFO of submitted, not yet started units
    upc,           \* per unit: its position in process_submission
    gres,          \* per unit: what grade_assignment returned or raised
    calls,         \* ghost, per unit: the oracle APIs called, in order
    starts,        \* ghost, per unit: how many times a worker started it
    putRow,        \* ghost, per unit: the row it put in the queue, if any
    result_queue,  \* the Queue of FormattedResult values
    progress,      \* progress_bar.n
    waitIdx,       \* index of the future the main thread waits for
    results,       \* the list drained from the queue
    writes,        \* ghost: how many times the output CSV was opened to write
    arrival,       \* ghost: the units in the order their rows were put
    hungUnit,      \* HangSpec: the unit whose oracle call never returns, or 0
    zipIn,         \* ZipSpec: the archive given to process_zip_file
    zipOut,        \* ZipSpec: what process_zip_file returned
    pathIn,        \* OutputPathSpec: submissions_dir and the --output option
    pathOut,       \* OutputPathSpec: output_path once grade has set it
    wrIn,          \* WriterSpec: the list given to write_results
    wrFile,        \* WriterSpec: the file at output_path
    wrCalls,       \* WriterSpec: how many times write_results was called
    wrFirst,       \* WriterSpec, ghost: the file after the first call
    writerOf,      \* LockSpec, per pipeline: the ResultWriter it uses
    lockOwner,     \* LockSpec, per ResultWriter: the holder of its _lock, or 0
    wpc,           \* LockSpec, per pipeline: its position in write_safely
    nRows,         \* LockSpec, per pipeline: how many rows it writes
    fpos,          \* LockSpec, per pipeline: the position of its file object
    diskFile,      \* LockSpec: the records of the file at the shared path
    cArgs,         \* CollectSpec: the input directories of collect_btsp
    cpc,           \* CollectSpec: the position in collect_btsp
    cExit,         \* CollectSpec: the exit status
    scanIdx,       \* CollectSpec: index of the next subdirectory to look at
    student_submissions, \* the dict: per student the latest (date, path)
    copyIdx,       \* CollectSpec: index of the next student to copy for
    outDir,        \* CollectSpec: the files of the output directory
    copied,        \* CollectSpec, ghost: the copies made, in order
    nameIn,        \* NameSpec: the name of a file of the submissions directory
    nameOut,       \* NameSpec: the student name and what split_name returned
    rArgs,         \* RenameSpec: the directory, --dry-run, the user's answer
    rDir,          \* RenameSpec: the entries of the submissions directory
    rpc,           \* RenameSpec: the position in rename
    rExit,         \* RenameSpec: the exit status
    rIdx,          \* RenameSpec: index in the listing, then in the plan
    rename_operations, \* the dict of the planned renames, in order
    renameLog      \* RenameSpec, ghost: the renames executed, in order

vars == <<args, outFile, outFile0, pc, exitCode, echo, submissions,
          discoveryRuns, nextSubmit, workQueue, upc, gres, calls, starts,
          putRow, result_queue, progress, waitIdx, results, writes,
          arrival, hungUnit, zipIn, zipOut, pathIn, pathOut,
          wrIn, wrFile, wrCalls, wrFirst,
          writerOf, lockOwner, wpc, nRows, fpos, diskFile,
          cArgs, cpc, cExit, scanIdx, student_submissions, copyIdx, outDir,
          copied, nameIn, nameOut,
          rArgs, rDir, rpc, rExit, rIdx, rename_operations, renameLog>>

zipVars == <<zipIn, zipOut>>

pathVars == <<pathIn, pathOut>>

writerVars == <<wrIn, wrFile, wrCalls, wrFirst>>

lockVars == <<writerOf, lockOwner, wpc, nRows, fpos, diskFile>>

collectVars == <<cArgs, cpc, cExit, scanIdx, student_submissions, copyIdx,
                 outDir, copied>>

nameVars == <<nameIn, nameOut>>

renameVars == <<rArgs, rDir, rpc, rExit, rIdx, rename_operations, renameLog>>

\* the variables of the specifications other than the grade command's
sideVars == <<zipVars, pathVars, writerVars, lockVars, collectVars,
              nameVars, renameVars>>

gradeVars == <<args, outFile, outFile0, pc, exitCode, echo, submissions,
               discoveryRuns, nextSubmit, workQueue, upc, gres, calls, starts,
               putRow, result_queue, progress, waitIdx, results, writes,
               arrival, hungUnit>>

(***************************************************************************)
(* Bounds of the model.                                                    *)
(***************************************************************************)
MaxEntries == 2      \* entries in the submissions directory
MaxThreads == 2      \* largest valid --threads value tried
MaxZipEntries == 3   \* entries in an archive given to process_zip_file
MaxDepth == 3        \* components of the submissions_dir argument
MaxRows == 3         \* results in a list given to write_results on its own
MaxSubdirs == 2      \* entries in one Brightspace download directory
MaxStem == 3         \* characters in the stem of a file name given to split_name
MaxFiles == 3        \* entries in the directory given to rename

(***************************************************************************)
(* Program constants.                                                      *)
(***************************************************************************)
DefaultMaxPoints == 100
OracleMaxPoints == 50

\* What a call that raised an exception gives, and what one that returned v.
Raise == [raised |-> TRUE]
Return(v) == [raised |-> FALSE, value |-> v]

(***************************************************************************)
(* Characters and strings.                                                 *)
(***************************************************************************)
\* The characters used, in code point order.
Alphabet == <<" ", ".", "A", "B", "C", "D", "M", "_", "a", "d", "e", "i",
              "j", "m", "n", "p", "r", "t", "v", "x", "z">>

Ord(c) == CHOOSE i \in 1..Len(Alphabet) : Alphabet[i] = c

Min2(a, b) == IF a <= b THEN a ELSE b

\* Python's str < str: by code point at the first difference, a proper
\* prefix being smaller.
StrLess(a, b) ==
    LET n == Min2(Len(a), Len(b))
        D == {i \in 1..n : a[i] # b[i]}
    IN  IF D = {} THEN Len(a) < Len(b)
        ELSE LET k == CHOOSE i \in D : \A j \in D : i <= j
             IN  Ord(a[k]) < Ord(b[k])

\* str.endswith
EndsWith(s, suf) ==
    /\ Len(suf) <= Len(s)
    /\ SubSeq(s, Len(s) - Len(suf) + 1, Len(s)) = suf

\* str.rfind('.') + 1, 0 when there is no dot
RFindDot(name) ==
    LET I == {i \in 1..Len(name) : name[i] = "."}
    IN  IF I = {} THEN 0 ELSE CHOOSE i \in I : \A j \in I : j <= i

\* pathlib's PurePath.suffix: from the last dot, unless the dot is the first
\* or the last character of the name.
Suffix(name) ==
    LET i == RFindDot(name)
    IN  IF 1 < i /\ i < Len(name) THEN SubSeq(name, i, Len(name)) ELSE <<>>

\* pathlib's PurePath.stem
Stem(name) ==
    LET i == RFindDot(name)
    IN  IF 1 < i /\ i < Len(name) THEN SubSeq(name, 1, i - 1) ELSE name

\* str.replace for one-character arguments
Replace(s, old, new) == [i \in 1..Len(s) |-> IF s[i] = old THEN new ELSE s[i]]

DotJava == <<".", "j", "a", "v", "a">>
DotZip == <<".", "z", "i", "p">>

\* str.join on a sequence of strings
RECURSIVE Join(_, _)
Join(parts, sep) ==
    IF parts = <<>> THEN ""
    ELSE IF Len(parts) = 1 THEN parts[1]
    ELSE parts[1] \o sep \o Join(Tail(parts), sep)

\* A number as Python holds it: the pydantic models declare final_score and
\* points as float, the placeholder and plain JSON integers are int.
Int_(n) == [n |-> n, isFloat |-> FALSE]
Float_(n) == [n |-> n, isFloat |-> TRUE]

\* str() of a number inside an f-string: 90 is "90", 90.0 is "90.0".
NumStr(x) == ToString(x.n) \o (IF x.isFloat THEN ".0" ELSE "")

(***************************************************************************)
(* Files on disk.  A file's content is text (decodable as UTF-8), binary   *)
(* (not decodable, not an archive) or an archive: a sequence of entries,   *)
(* each with a name and data that is text or binary.                       *)
(***************************************************************************)
Text(t) == [type |-> "text", text |-> t]
Binary == [type |-> "binary"]
Archive(es) == [type |-> "archive", entries |-> es]

\* bytes.decode('utf-8'), and reading a file opened with encoding='utf-8'
Decode(data) == IF data.type = "text" THEN Return(data.text) ELSE Raise

ZipEntryPool ==
    { [filename |-> <<"M", ".", "j", "a", "v", "a">>, data |-> Text("class M {}")],
      [filename |-> <<"A", ".", "j", "a", "v", "a">>, data |-> Text("class A {}")],
      [filename |-> <<".", "j", "a", "v", "a">>, data |-> Text("class X {}")],
      [filename |-> <<"r", ".", "t", "x", "t">>, data |-> Text("read me")],
      [filename |-> <<"M", ".", "j", "a", "r">>, data |-> Binary],
      [filename |-> <<"B", ".", "j", "a", "v", "a">>, data |-> Binary] }

\* SubmissionProcessor.process_java_file
process_java_file(name, content) ==
    IF Decode(content).raised THEN Raise
    ELSE Return(<<[filename |-> name, content |-> Decode(content).value]>>)

\* IsJavaEntry by pathlib's suffix instead of str.endswith.
IsJavaEntryBySuffix(e) == Suffix(e.filename) = DotJava

\* SubmissionProcessor.process_zip_file: the .java entries in archive order,
\* each decoded; it raises on a file that is no archive and on a .java entry
\* that does not decode.
IsJavaEntry(e) == EndsWith(e.filename, DotJava)

process_zip_file(content) ==
    IF content.type # "archive" THEN Raise
    ELSE LET java == SelectSeq(content.entries, IsJavaEntry)
         IN  IF \E i \in 1..Len(java) : Decode(java[i].data).raised
             THEN Raise
             ELSE Return([i \in 1..Len(java) |->
                            [filename |-> java[i].filename,
                             content |-> Decode(java[i].data).value]])

\* SubmissionProcessor.extract_student_name
extract_student_name(filename) == Replace(Stem(filename), "_", " ")

\* find_submissions keeping an entry whose processing raised, with no files.
RECURSIVE find_submissions_keep_failed(_)
find_submissions_keep_failed(listing) ==
    IF listing = <<>> THEN <<>>
    ELSE LET f == Head(listing)
             rest == find_submissions_keep_failed(Tail(listing))
         IN  IF Suffix(f.name) \notin {DotJava, DotZip} THEN rest
             ELSE LET files == IF Suffix(f.name) = DotZip
                               THEN process_zip_file(f.content)
                               ELSE process_java_file(f.name, f.content)
                  IN  <<[student_name |-> extract_student_name(f.name),
                         files |-> IF files.raised THEN <<>> ELSE files.value,
                         original_path |-> f.name]>> \o rest

\* find_submissions giving up at the first entry whose processing raised.
RECURSIVE find_submissions_stop_at_failure(_)
find_submissions_stop_at_failure(listing) ==
    IF listing = <<>> THEN <<>>
    ELSE LET f == Head(listing)
             rest == find_submissions_stop_at_failure(Tail(listing))
         IN  IF Suffix(f.name) \notin {DotJava, DotZip} THEN rest
             ELSE LET files == IF Suffix(f.name) = DotZip
                               THEN process_zip_file(f.content)
                               ELSE process_java_file(f.name, f.content)
                  IN  IF files.raised THEN <<>>
                      ELSE <<[student_name |-> extract_student_name(f.name),
                              files |-> files.value,
                              original_path |-> f.name]>> \o rest

\* SubmissionProcessor.find_submissions over the directory listing: entries
\* with another suffix are passed over, an entry whose processing raises is
\* logged and skipped.
RECURSIVE find_submissions(_)
find_submissions(listing) ==
    IF listing = <<>> THEN <<>>
    ELSE LET f == Head(listing)
             rest == find_submissions(Tail(listing))
         IN  IF Suffix(f.name) \notin {DotJava, DotZip} THEN rest
             ELSE LET files == IF Suffix(f.name) = DotZip
                               THEN process_zip_file(f.content)
                               ELSE process_java_file(f.name, f.content)
                  IN  IF files.raised THEN rest
                      ELSE <<[student_name |-> extract_student_name(f.name),
                              files |-> files.value,
                              original_path |-> f.name]>> \o rest

(***************************************************************************)
(* ResultFormatter.                                                        *)
(***************************************************************************)
\* str.split() with no argument: the maximal runs of non-blank characters.
RECURSIVE Tokens(_, _, _)
Tokens(s, cur, acc) ==
    IF s = <<>> THEN (IF cur = <<>> THEN acc ELSE Append(acc, cur))
    ELSE IF Head(s) = " "
         THEN Tokens(Tail(s), <<>>, IF cur = <<>> THEN acc ELSE Append(acc, cur))
         ELSE Tokens(Tail(s), Append(cur, Head(s)), acc)

Split(s) == Tokens(s, <<>>, <<>>)

\* " ".join on a sequence of names
RECURSIVE JoinNames(_)
JoinNames(parts) ==
    IF parts = <<>> THEN <<>>
    ELSE IF Len(parts) = 1 THEN parts[1]
    ELSE parts[1] \o <<" ">> \o JoinNames(Tail(parts))

\* ResultFormatter.split_name: (last_name, first_name); parts[-1] of an empty
\* list raises IndexError.
split_name(full_name) ==
    LET parts == Split(full_name)
        n == Len(parts)
    IN  IF n = 1 THEN Return([last_name |-> parts[1], first_name |-> <<>>])
        ELSE IF n = 0 THEN Raise
        ELSE Return([last_name |-> parts[n],
                     first_name |-> JoinNames(SubSeq(parts, 1, n - 1))])

\* ResultFormatter.format_requirements
format_requirements(requirements) ==
    LET met_reqs == SelectSeq(requirements, LAMBDA r : r.met)
        unmet_reqs == SelectSeq(requirements, LAMBDA r : ~r.met)
        met_text == "Requirements met:\n- " \o
            Join([i \in 1..Len(met_reqs) |-> met_reqs[i].requirement], "\n- ")
        unmet_text == "Requirements not met:\n- " \o
            Join([i \in 1..Len(unmet_reqs) |->
                    unmet_reqs[i].requirement \o ": " \o unmet_reqs[i].explanation],
                 "\n- ")
    IN  Join((IF met_reqs # <<>> THEN <<met_text>> ELSE <<>>) \o
             (IF unmet_reqs # <<>> THEN <<unmet_text>> ELSE <<>>), "\n\n")

\* ResultFormatter.format_result; it raises when split_name does and when
\* extra_credit has no 'awarded' key.
format_result(result) ==
    LET name == split_name(result.student_name)
        deductions_text ==
            IF result.point_deductions # <<>>
            THEN Join([i \in 1..Len(result.point_deductions) |->
                         "- " \o result.point_deductions[i].reason \o " (-" \o
                         NumStr(result.point_deductions[i].points) \o " points)"],
                      "\n")
            ELSE "No points deducted"
        extra_credit_text ==
            IF result.extra_credit.awarded
            THEN "+" \o NumStr(result.extra_credit.points) \o " points: " \o
                 result.extra_credit.reason
            ELSE "No extra credit awarded"
    IN  IF name.raised \/ "awarded" \notin DOMAIN result.extra_credit THEN Raise
        ELSE Return(
            [last_name |-> name.value.last_name,
             first_name |-> name.value.first_name,
             final_score |-> NumStr(result.final_score) \o "/" \o
                             ToString(result.max_points),
             extra_credit |-> extra_credit_text,
             code_quality |-> result.code_quality,
             requirements_analysis |->
                 format_requirements(result.requirements_assessment),
             point_deductions |-> deductions_text,
             overall_assessment |-> result.overall_assessment,
             areas_for_improvement |->
                 "\n- " \o Join(result.improvement_suggestions, "\n- ")])

(***************************************************************************)
(* The grading oracle's answers and Grader.grade_submission.               *)
(***************************************************************************)
\* What client.responses.parse can give: a parsed payload, or one of the
\* three failures (an exception, a refusal, no parsed output).
ResponsesOutcomes == {"parsed", "error", "refusal", "unparsed"}

\* What client.chat.completions.create can give: JSON text that holds a
\* complete object, one without final_score, one whose extra_credit has no
\* 'awarded' key; text that is no JSON; no choices; an exception.
ChatOutcomes == {"legacy", "noscore", "noawarded", "invalid_json",
                 "no_choices", "error"}

ParsedPayload ==
    [final_score |-> Float_(90),
     code_quality |-> "Clean",
     requirements_assessment |->
         <<[requirement |-> "R1", met |-> TRUE, explanation |-> "done"],
           [requirement |-> "R2", met |-> FALSE, explanation |-> "missing"]>>,
     point_deductions |-> <<[reason |-> "style", points |-> Float_(10)]>>,
     extra_credit |-> [awarded |-> FALSE, points |-> Float_(0), reason |-> ""],
     overall_assessment |-> "Good work",
     improvement_suggestions |-> <<"Add comments">>]

\* The JSON of the legacy call is free-form: it can carry keys the caller
\* does not ask for, such as its own max_points.
LegacyPayload ==
    [final_score |-> Int_(70),
     code_quality |-> "Fair",
     requirements_assessment |->
         <<[requirement |-> "R1", met |-> TRUE, explanation |-> "done"]>>,
     point_deductions |-> <<>>,
     extra_credit |-> [awarded |-> TRUE, points |-> Int_(2), reason |-> "tests"],
     overall_assessment |-> "Acceptable",
     improvement_suggestions |-> <<"Use loops", "Rename variables">>,
     max_points |-> OracleMaxPoints]

\* The dict grade_assignment returned, by the name gres holds.
Payload(g) ==
    CASE g = "parsed" -> ParsedPayload
      [] g = "legacy" -> LegacyPayload
      [] g = "noscore" ->
             [k \in DOMAIN LegacyPayload \ {"final_score"} |-> LegacyPayload[k]]
      [] g = "noawarded" ->
             [LegacyPayload EXCEPT !.extra_credit =
                  [points |-> Int_(2), reason |-> "tests"]]

RequiredKeys == {"final_score", "code_quality", "requirements_assessment",
                 "point_deductions", "extra_credit", "overall_assessment",
                 "improvement_suggestions"}

\* Placeholder with the score set to the maximum instead of 0.
PlaceholderMaxScore(student_name, max_points) ==
    [student_name |-> student_name,
     final_score |-> Int_(max_points),
     max_points |-> max_points,
     code_quality |-> "Error during grading",
     requirements_assessment |-> <<>>,
     point_deductions |-> <<>>,
     extra_credit |-> [awarded |-> FALSE, points |-> Int_(0), reason |-> ""],
     overall_assessment |-> "Failed to grade submission",
     improvement_suggestions |-> <<"Please resubmit or contact instructor">>]

\* The except branch of Grader.grade_submission
Placeholder(student_name, max_points) ==
    [student_name |-> student_name,
     final_score |-> Int_(0),
     max_points |-> max_points,
     code_quality |-> "Error during grading",
     requirements_assessment |-> <<>>,
     point_deductions |-> <<>>,
     extra_credit |-> [awarded |-> FALSE, points |-> Int_(0), reason |-> ""],
     overall_assessment |-> "Failed to grade submission",
     improvement_suggestions |-> <<"Please resubmit or contact instructor">>]

\* Grader.grade_submission after grade_assignment returned or raised (g):
\* any exception, a missing key of the returned dict included, gives the
\* placeholder.
\* grade_submission taking max_points from the oracle's answer when the
\* answer has one.
grade_submission_oracle_max(submission, g, max_points) ==
    IF g = "raised" THEN Placeholder(submission.student_name, max_points)
    ELSE IF ~(RequiredKeys \subseteq DOMAIN Payload(g))
         THEN Placeholder(submission.student_name, max_points)
         ELSE LET result == Payload(g)
              IN  [student_name |-> submission.student_name,
                   final_score |-> result.final_score,
                   max_points |-> IF "max_points" \in DOMAIN result
                                  THEN result.max_points ELSE max_points,
                   code_quality |-> result.code_quality,
                   requirements_assessment |-> result.requirements_assessment,
                   point_deductions |-> result.point_deductions,
                   extra_credit |-> result.extra_credit,
                   overall_assessment |-> result.overall_assessment,
                   improvement_suggestions |-> result.improvement_suggestions]

grade_submission(submission, g, max_points) ==
    IF g = "raised" THEN Placeholder(submission.student_name, max_points)
    ELSE IF ~(RequiredKeys \subseteq DOMAIN Payload(g))
         THEN Placeholder(submission.student_name, max_points)
         ELSE LET result == Payload(g)
              IN  [student_name |-> submission.student_name,
                   final_score |-> result.final_score,
                   max_points |-> max_points,
                   code_quality |-> result.code_quality,
                   requirements_assessment |-> result.requirements_assessment,
                   point_deductions |-> result.point_deductions,
                   extra_credit |-> result.extra_credit,
                   overall_assessment |-> result.overall_assessment,
                   improvement_suggestions |-> result.improvement_suggestions]

(***************************************************************************)
(* Sorting and ResultWriter.                                               *)
(***************************************************************************)
\* key=lambda x: x.last_name
LastNameLess(a, b) == StrLess(a.last_name, b.last_name)

\* The writer's sort with the key of the sort in grade: the last name only.
NameLessLastOnly(a, b) == StrLess(a.last_name, b.last_name)

\* key=lambda x: (x['Last Name'], x['First Name']): tuples compare by their
\* first differing component.
NameLess(a, b) ==
    \/ StrLess(a.last_name, b.last_name)
    \/ a.last_name = b.last_name /\ StrLess(a.first_name, b.first_name)

KeyLess(key, a, b) ==
    IF key = "last_name" THEN LastNameLess(a, b) ELSE NameLess(a, b)

\* list.sort(key=...): a stable sort.  Element i goes behind every element
\* of smaller key and every element of equal key that stood before it.
StableSort(s, key) ==
    LET rank(i) == 1 + Cardinality({j \in 1..Len(s) :
                        \/ KeyLess(key, s[j], s[i])
                        \/ ~KeyLess(key, s[i], s[j]) /\ j < i})
    IN  [k \in 1..Len(s) |-> s[CHOOSE i \in 1..Len(s) : rank(i) = k]]

fieldnames == <<"Last Name", "First Name", "Final Score", "Extra Credit",
                "Code Quality Assessment", "Requirements Analysis",
                "Point Deductions", "Overall Assessment",
                "Areas for Improvement">>

\* A CSV file is the sequence of the records written to it: those written
\* by writeheader and those written by writerows.
NoFile == [exists |-> FALSE]
File(header, rows) ==
    [exists |-> TRUE,
     lines |-> <<[kind |-> "header", cells |-> header]>> \o
               [k \in 1..Len(rows) |-> [kind |-> "row", cells |-> rows[k]]]]

\* the data records of a file, in file order
Rows(file) ==
    LET data == SelectSeq(file.lines, LAMBDA l : l.kind = "row")
    IN  [k \in 1..Len(data) |-> data[k].cells]

\* ResultWriter.write_results: the file after the call.  An empty list
\* returns before the file is opened; otherwise mode 'w' replaces the file by
\* the header and the rows sorted by (Last Name, First Name).
CsvRow(r) == <<r.last_name, r.first_name, r.final_score, r.extra_credit,
               r.code_quality, r.requirements_analysis, r.point_deductions,
               r.overall_assessment, r.areas_for_improvement>>

\* write_results without the early return on an empty list.
write_results_header_only(rs, file) ==
    LET rows == StableSort(rs, "name")
    IN  File(fieldnames, [i \in 1..Len(rows) |-> CsvRow(rows[i])])

\* write_results opening the file in mode 'a'.
write_results_append(rs, file) ==
    IF rs = <<>> THEN file
    ELSE LET rows == StableSort(rs, "name")
             new == File(fieldnames, [i \in 1..Len(rows) |-> CsvRow(rows[i])])
         IN  [exists |-> TRUE,
              lines |-> (IF file.exists THEN file.lines ELSE <<>>) \o new.lines]

write_results(rs, file) ==
    IF rs = <<>> THEN file
    ELSE LET rows == StableSort(rs, "name")
         IN  File(fieldnames, [i \in 1..Len(rows) |-> CsvRow(rows[i])])

(***************************************************************************)
(* The inputs of a run of the grade command.                               *)
(***************************************************************************)
FilePool ==
    { [name |-> <<"C", "_", "B", ".", "j", "a", "v", "a">>,
       content |-> Text("class B {}")],
      [name |-> <<"C", "_", "B", ".", "z", "i", "p">>,
       content |-> Archive(<<
           [filename |-> <<"M", ".", "j", "a", "v", "a">>,
            data |-> Text("class M {}")],
           [filename |-> <<"r", ".", "t", "x", "t">>,
            data |-> Text("read me")]>>)],
      [name |-> <<"D", "_", "A", ".", "j", "a", "v", "a">>,
       content |-> Text("class A {}")],
      [name |-> <<"_", ".", "j", "a", "v", "a">>,
       content |-> Text("class U {}")],
      [name |-> <<"D", ".", "z", "i", "p">>, content |-> Binary],
      [name |-> <<"n", ".", "t", "x", "t">>, content |-> Text("notes")] }

\* Directory listings: no two entries of a directory have the same name.
Listings ==
    UNION { {l \in [1..n -> FilePool] :
                \A i, j \in 1..n : i # j => l[i].name # l[j].name} :
            n \in 0..MaxEntries }

OldFile == File(fieldnames, <<<<"old">>>>)

ArgChoices ==
    { a \in [dirIsDir : BOOLEAN, listing : Listings, rubricIsFile : BOOLEAN,
             max_points : {0, DefaultMaxPoints},
             threads : {-1, 0} \cup (1..MaxThreads)] :
        ~a.dirIsDir => a.listing = <<>> }

Units == 1..Len(submissions)

Running == {"call1", "call2", "hung", "finally"}

GradeInit ==
    /\ args \in ArgChoices
    /\ outFile0 \in {NoFile, OldFile}
    /\ outFile = outFile0
    /\ pc = "validate"
    /\ exitCode = 0
    /\ echo = ""
    /\ submissions = <<>>
    /\ discoveryRuns = 0
    /\ nextSubmit = 1
    /\ workQueue = <<>>
    /\ upc = <<>>
    /\ gres = <<>>
    /\ calls = <<>>
    /\ starts = <<>>
    /\ putRow = <<>>
    /\ result_queue = <<>>
    /\ progress = 0
    /\ waitIdx = 1
    /\ results = <<>>
    /\ writes = 0
    /\ arrival = <<>>
    /\ hungUnit = 0

\* The state of the operations a specification does not run.
ZipIdle ==
    /\ zipIn = Binary
    /\ zipOut = [called |-> FALSE]

WriterIdle ==
    /\ wrIn = <<>>
    /\ wrFile = NoFile
    /\ wrCalls = 0
    /\ wrFirst = NoFile

RenameIdle ==
    /\ rArgs = [dirIsDir |-> FALSE, listing |-> <<>>, dry_run |-> FALSE,
                confirm |-> FALSE]
    /\ rDir = {}
    /\ rpc = "idle"
    /\ rExit = 0
    /\ rIdx = 1
    /\ rename_operations = <<>>
    /\ renameLog = <<>>

NameIdle ==
    /\ nameIn = <<>>
    /\ nameOut = [called |-> FALSE]

CollectIdle ==
    /\ cArgs = <<>>
    /\ cpc = "idle"
    /\ cExit = 0
    /\ scanIdx = 1
    /\ student_submissions = <<>>
    /\ copyIdx = 1
    /\ outDir = <<>>
    /\ copied = <<>>

LockIdle ==
    /\ writerOf = <<1, 2>>
    /\ lockOwner = <<0, 0>>
    /\ wpc = <<"closed", "closed">>
    /\ nRows = <<1, 1>>
    /\ fpos = <<0, 0>>
    /\ diskFile = <<>>

PathIdle ==
    /\ pathIn = [submissions_dir |-> [abs |-> FALSE, comps |-> <<>>],
                 output |-> [given |-> FALSE]]
    /\ pathOut = [set |-> FALSE]

GradeIdle ==
    /\ args = [dirIsDir |-> FALSE, listing |-> <<>>, rubricIsFile |-> FALSE,
               max_points |-> DefaultMaxPoints, threads |-> 1]
    /\ outFile0 = NoFile
    /\ outFile = NoFile
    /\ pc = "idle"
    /\ exitCode = 0
    /\ echo = ""
    /\ submissions = <<>>
    /\ discoveryRuns = 0
    /\ nextSubmit = 1
    /\ workQueue = <<>>
    /\ upc = <<>>
    /\ gres = <<>>
    /\ calls = <<>>
    /\ starts = <<>>
    /\ putRow = <<>>
    /\ result_queue = <<>>
    /\ progress = 0
    /\ waitIdx = 1
    /\ results = <<>>
    /\ writes = 0
    /\ arrival = <<>>
    /\ hungUnit = 0

Init ==
    /\ GradeInit
    /\ ZipIdle
    /\ PathIdle
    /\ WriterIdle
    /\ LockIdle
    /\ CollectIdle
    /\ NameIdle
    /\ RenameIdle

(***************************************************************************)
(* grade(): the main thread.                                               *)
(***************************************************************************)
\* ValidationError with max_points < 0 for max_points <= 0.
ValidationErrorStrict(a) ==
    IF ~a.dirIsDir THEN "Error: not a valid directory"
    ELSE IF ~a.rubricIsFile THEN "Error: not a valid file"
    ELSE IF a.max_points < 0 THEN "Error: max_points must be positive"
    ELSE IF a.threads <= 0 THEN "Error: threads must be positive"
    ELSE ""

\* The four checks of the arguments, in order; the first that fails echoes
\* its message and raises typer.Exit(1).
ValidationError(a) ==
    IF ~a.dirIsDir THEN "Error: not a valid directory"
    ELSE IF ~a.rubricIsFile THEN "Error: not a valid file"
    ELSE IF a.max_points <= 0 THEN "Error: max_points must be positive"
    ELSE IF a.threads <= 0 THEN "Error: threads must be positive"
    ELSE ""

Validate ==
    /\ pc = "validate"
    /\ IF ValidationError(args) # ""
       THEN /\ echo' = ValidationError(args)
            /\ exitCode' = 1
            /\ pc' = "exited"
       ELSE /\ echo' = "Finding submissions..."
            /\ pc' = "discover"
            /\ UNCHANGED exitCode
    /\ UNCHANGED <<args, outFile, outFile0, submissions, discoveryRuns,
                   nextSubmit, workQueue, upc, gres, calls, starts, putRow,
                   result_queue, progress, waitIdx, results, writes, arrival, hungUnit, sideVars>>

\* find_submissions, the exit on an empty list, and the set-up of the
\* grader, the queue and the progress bar.
Discover ==
    /\ pc = "discover"
    /\ LET found == find_submissions(args.listing)
       IN  /\ submissions' = found
           /\ discoveryRuns' = discoveryRuns + 1
           /\ upc' = [i \in 1..Len(found) |-> "new"]
           /\ gres' = [i \in 1..Len(found) |-> "none"]
           /\ calls' = [i \in 1..Len(found) |-> <<>>]
           /\ starts' = [i \in 1..Len(found) |-> 0]
           /\ putRow' = [i \in 1..Len(found) |-> [put |-> FALSE]]
           /\ IF found = <<>>
              THEN /\ echo' = "No valid submissions found."
                   /\ exitCode' = 1
                   /\ pc' = "exited"
              ELSE /\ echo' = "Grading submissions..."
                   /\ pc' = "submit"
                   /\ UNCHANGED exitCode
    /\ UNCHANGED <<args, outFile, outFile0, nextSubmit, workQueue,
                   result_queue, progress, waitIdx, results, writes, arrival, hungUnit, sideVars>>

\* executor.submit(process_submission, submission), one submission after
\* the other; after the last one the main thread waits for the futures.
Submit ==
    /\ pc = "submit"
    /\ workQueue' = Append(workQueue, nextSubmit)
    /\ upc' = [upc EXCEPT ![nextSubmit] = "queued"]
    /\ nextSubmit' = nextSubmit + 1
    /\ pc' = IF nextSubmit = Len(submissions) THEN "wait" ELSE "submit"
    /\ UNCHANGED <<args, outFile, outFile0, exitCode, echo, submissions,
                   discoveryRuns, gres, calls, starts, putRow, result_queue,
                   progress, waitIdx, results, writes, arrival, hungUnit, sideVars>>

\* A future that counts as done once its row is put, before the finally.
FutureDoneAtPut(i) == upc[i] \in {"finally", "done"}

\* future.result() for the futures in order, then the end of the with
\* block (shutdown(wait=True)) and progress_bar.close().
FutureDone(i) == upc[i] = "done"

WaitFuture ==
    /\ pc = "wait"
    /\ FutureDone(waitIdx)
    /\ waitIdx' = waitIdx + 1
    /\ pc' = IF waitIdx = Len(submissions) THEN "drain" ELSE "wait"
    /\ UNCHANGED <<args, outFile, outFile0, exitCode, echo, submissions,
                   discoveryRuns, nextSubmit, workQueue, upc, gres, calls,
                   starts, putRow, result_queue, progress, results, writes, arrival, hungUnit, sideVars>>

\* A drain loop that stops one item early.
DrainedButLast(q) == SubSeq(q, 1, Len(q) - 1)

\* while not result_queue.empty(): results.append(result_queue.get())
Drained(q) == q

Drain ==
    /\ pc = "drain"
    /\ results' = Drained(result_queue)
    /\ result_queue' = <<>>
    /\ pc' = "sort"
    /\ UNCHANGED <<args, outFile, outFile0, exitCode, echo, submissions,
                   discoveryRuns, nextSubmit, workQueue, upc, gres, calls,
                   starts, putRow, progress, waitIdx, writes, arrival, hungUnit, sideVars>>

\* results.sort(key=lambda x: x.last_name)
SortResults ==
    /\ pc = "sort"
    /\ results' = StableSort(results, "last_name")
    /\ echo' = "Writing results..."
    /\ pc' = "write"
    /\ UNCHANGED <<args, outFile, outFile0, exitCode, submissions,
                   discoveryRuns, nextSubmit, workQueue, upc, gres, calls,
                   starts, putRow, result_queue, progress, waitIdx, writes, arrival, hungUnit, sideVars>>

\* writer.write_results(results, output_path) and the closing message
WriteResults ==
    /\ pc = "write"
    /\ outFile' = write_results(results, outFile)
    /\ writes' = IF results = <<>> THEN writes ELSE writes + 1
    /\ echo' = "Grading completed!"
    /\ pc' = "done"
    /\ UNCHANGED <<args, outFile0, exitCode, submissions, discoveryRuns,
                   nextSubmit, workQueue, upc, gres, calls, starts, putRow,
                   result_queue, progress, waitIdx, results, arrival, hungUnit, sideVars>>

(***************************************************************************)
(* The pool's workers: one process_submission unit per submission.         *)
(***************************************************************************)
\* CanStart with one worker fewer than configured.
CanStartOffByOne(i) ==
    /\ workQueue # <<>>
    /\ Head(workQueue) = i
    /\ Cardinality({j \in Units : upc[j] \in Running}) < args.threads - 1

\* CanStart of a pool with one worker more than configured.
CanStartOneMore(i) ==
    /\ workQueue # <<>>
    /\ Head(workQueue) = i
    /\ Cardinality({j \in Units : upc[j] \in Running}) < args.threads + 1

\* CanStart of a pool that runs one unit at a time whatever --threads says.
CanStartSerial(i) ==
    /\ workQueue # <<>>
    /\ Head(workQueue) = i
    /\ Cardinality({j \in Units : upc[j] \in Running}) < 1

\* CanStart of a pool that starts no further unit once a unit has failed.
CanStartUnlessFailure(i) ==
    /\ workQueue # <<>>
    /\ Head(workQueue) = i
    /\ Cardinality({j \in Units : upc[j] \in Running}) < args.threads
    /\ \A j \in Units :
          upc[j] \in {"finally", "done"} =>
              (putRow[j].put /\ gres[j] \notin {"raised", "noscore"})

\* A worker takes the oldest queued unit; at most args.threads units run.
CanStart(i) ==
    /\ workQueue # <<>>
    /\ Head(workQueue) = i
    /\ Cardinality({j \in Units : upc[j] \in Running}) < args.threads

Start(i) ==
    /\ upc[i] = "queued"
    /\ CanStart(i)
    /\ workQueue' = Tail(workQueue)
    /\ upc' = [upc EXCEPT ![i] = "call1"]
    /\ starts' = [starts EXCEPT ![i] = @ + 1]
    /\ UNCHANGED <<args, outFile, outFile0, pc, exitCode, echo, submissions,
                   discoveryRuns, nextSubmit, gres, calls, putRow,
                   result_queue, progress, waitIdx, results, writes, arrival, hungUnit, sideVars>>

\* The rest of the try block of process_submission once grade_assignment
\* has returned or raised (g): grade_submission builds the GradingResult or
\* the placeholder, format_result formats it and the row is put in the
\* queue; an exception of format_result is logged and nothing is put.
QueuePutOverwrite(q, row) == <<row>>

QueuePut(q, row) == Append(q, row)

PutResult(i, g) ==
    LET result == grade_submission(submissions[i], g, args.max_points)
        formatted_result == format_result(result)
    IN  IF formatted_result.raised
        THEN UNCHANGED <<result_queue, putRow, arrival>>
        ELSE /\ result_queue' = QueuePut(result_queue, formatted_result.value)
             /\ putRow' = [putRow EXCEPT ![i] =
                              [put |-> TRUE, row |-> formatted_result.value]]
             /\ arrival' = Append(arrival, i)

\* AfterResponses falling back to the legacy call after a parsed output too.
AfterResponsesAlwaysFallback(outcome) == "call2"

\* grade_assignment: client.responses.parse.  A parsed output is returned;
\* an exception, a refusal and an output that was not parsed all reach the
\* except clause, which falls back to grade_assignment_legacy.
AfterResponses(outcome) == IF outcome = "parsed" THEN "finally" ELSE "call2"

CallResponses(i) ==
    /\ upc[i] = "call1"
    /\ \E outcome \in ResponsesOutcomes :
          /\ calls' = [calls EXCEPT ![i] =
                          Append(@, [api |-> "responses",
                                     ok |-> outcome = "parsed"])]
          /\ upc' = [upc EXCEPT ![i] = AfterResponses(outcome)]
          /\ IF AfterResponses(outcome) = "call2"
             THEN UNCHANGED <<gres, result_queue, putRow, arrival>>
             ELSE /\ gres' = [gres EXCEPT ![i] = outcome]
                  /\ PutResult(i, outcome)
    /\ UNCHANGED <<args, outFile, outFile0, pc, exitCode, echo, submissions,
                   discoveryRuns, nextSubmit, workQueue, starts, progress,
                   waitIdx, results, writes, hungUnit, sideVars>>

\* grade_assignment_legacy: client.chat.completions.create.  JSON that
\* parses is returned as it is; anything else raises.
LegacyResult(outcome) ==
    IF outcome \in {"legacy", "noscore", "noawarded"} THEN outcome ELSE "raised"

CallChat(i) ==
    /\ upc[i] = "call2"
    /\ \E outcome \in ChatOutcomes :
          /\ gres' = [gres EXCEPT ![i] = LegacyResult(outcome)]
          /\ calls' = [calls EXCEPT ![i] =
                          Append(@, [api |-> "chat",
                                     ok |-> LegacyResult(outcome) # "raised"])]
          /\ PutResult(i, LegacyResult(outcome))
    /\ upc' = [upc EXCEPT ![i] = "finally"]
    /\ UNCHANGED <<args, outFile, outFile0, pc, exitCode, echo, submissions,
                   discoveryRuns, nextSubmit, workQueue, starts, progress,
                   waitIdx, results, writes, hungUnit, sideVars>>

\* The progress update at the end of the try block instead of the finally.
UpdateProgressOnSuccess(i) ==
    /\ upc[i] = "finally"
    /\ progress' = IF putRow[i].put THEN progress + 1 ELSE progress
    /\ upc' = [upc EXCEPT ![i] = "done"]
    /\ UNCHANGED <<args, outFile, outFile0, pc, exitCode, echo, submissions,
                   discoveryRuns, nextSubmit, workQueue, gres, calls, starts,
                   putRow, result_queue, waitIdx, results, writes, arrival, hungUnit, sideVars>>

\* finally: with progress_lock: progress_bar.update(1); the future is done.
UpdateProgress(i) ==
    /\ upc[i] = "finally"
    /\ progress' = progress + 1
    /\ upc' = [upc EXCEPT ![i] = "done"]
    /\ UNCHANGED <<args, outFile, outFile0, pc, exitCode, echo, submissions,
                   discoveryRuns, nextSubmit, workQueue, gres, calls, starts,
                   putRow, result_queue, waitIdx, results, writes, arrival, hungUnit, sideVars>>

Next ==
    \/ Validate
    \/ Discover
    \/ Submit
    \/ WaitFuture
    \/ Drain
    \/ SortResults
    \/ WriteResults
    \/ \E i \in Units : Start(i)
    \/ \E i \in Units : CallResponses(i)
    \/ \E i \in Units : CallChat(i)
    \/ \E i \in Units : UpdateProgress(i)

Spec == Init /\ [][Next]_vars

\* The runs in which the pool is reached whatever the directory holds: the
\* arguments are valid, there is no earlier output file, and the directory
\* is listed in name order.
FairInit ==
    /\ Init
    /\ args.dirIsDir /\ args.rubricIsFile
    /\ args.max_points > 0 /\ args.threads > 0
    /\ \A k \in 1..(Len(args.listing) - 1) :
          StrLess(args.listing[k].name, args.listing[k + 1].name)
    /\ outFile0 = NoFile

\* The scheduler runs every thread that can take a step, and every oracle
\* call returns or raises.
FairSpec == FairInit /\ [][Next]_vars /\ WF_vars(Next)

(***************************************************************************)
(* The grade command when one oracle call never returns.                   *)
(***************************************************************************)
\* client.responses.parse or client.chat.completions.create blocks for
\* ever: the unit keeps its worker and never reaches the finally clause.
Hang(i) ==
    /\ hungUnit = 0
    /\ upc[i] \in {"call1", "call2"}
    /\ hungUnit' = i
    /\ upc' = [upc EXCEPT ![i] = "hung"]
    /\ UNCHANGED <<args, outFile, outFile0, pc, exitCode, echo, submissions,
                   discoveryRuns, nextSubmit, workQueue, gres, calls, starts,
                   putRow, result_queue, progress, waitIdx, results, writes,
                   arrival, sideVars>>

HangNext ==
    \/ Next
    \/ \E i \in Units : Hang(i)

\* At most one call hangs; every other call returns or raises and the
\* scheduler runs every thread that can take a step.
HangSpec == FairInit /\ [][HangNext]_vars /\ WF_vars(HangNext)

(***************************************************************************)
(* process_zip_file on its own.                                            *)
(***************************************************************************)
Archives ==
    UNION { [1..n -> ZipEntryPool] : n \in 0..MaxZipEntries }

ZipInit ==
    /\ zipIn \in {Archive(es) : es \in Archives} \cup {Binary}
    /\ zipOut = [called |-> FALSE]
    /\ GradeIdle
    /\ PathIdle
    /\ WriterIdle
    /\ LockIdle
    /\ CollectIdle
    /\ NameIdle
    /\ RenameIdle

ProcessZip ==
    /\ ~zipOut.called
    /\ zipOut' = [called |-> TRUE, ret |-> process_zip_file(zipIn)]
    /\ UNCHANGED <<zipIn, gradeVars, pathVars, writerVars, lockVars, collectVars,
                   nameVars, renameVars>>

ZipNext == ProcessZip

ZipSpec == ZipInit /\ [][ZipNext]_vars

(***************************************************************************)
(* grade(): the output path.                                               *)
(***************************************************************************)
\* A path string is given by whether it starts with "/" and by its
\* components; Path(s) drops the "." components.
RECURSIVE DropDots(_)
DropDots(comps) ==
    IF comps = <<>> THEN <<>>
    ELSE IF Head(comps) = "." THEN DropDots(Tail(comps))
    ELSE <<Head(comps)>> \o DropDots(Tail(comps))

Path(raw) == [abs |-> raw.abs, parts |-> DropDots(raw.comps)]

\* PurePath.parent: the path without its last part; "." and "/" are their
\* own parents.
Parent(p) ==
    IF p.parts = <<>> THEN p
    ELSE [p EXCEPT !.parts = SubSeq(p.parts, 1, Len(p.parts) - 1)]

\* p / name
Div(p, name) == [p EXCEPT !.parts = Append(p.parts, name)]

\* bool(output): None and the empty string are false
Truthy(output) ==
    output.given /\ (output.raw.abs \/ output.raw.comps # <<>>)

\* output_path = Path(output) if output
\*               else submissions_path.parent / 'grading_results.csv'
output_path(submissions_dir, output) ==
    IF Truthy(output) THEN Path(output.raw)
    ELSE Div(Parent(Path(submissions_dir)), "grading_results.csv")

RawPaths ==
    { [abs |-> a, comps |-> c] :
        a \in BOOLEAN,
        c \in UNION { [1..n -> {".", "hw", "subs"}] : n \in 0..MaxDepth } }

OutputOptions ==
    { [given |-> FALSE],
      [given |-> TRUE, raw |-> [abs |-> FALSE, comps |-> <<>>]],
      [given |-> TRUE, raw |-> [abs |-> FALSE, comps |-> <<"out.csv">>]] }

PathInit ==
    /\ pathIn \in [submissions_dir : RawPaths, output : OutputOptions]
    /\ pathOut = [set |-> FALSE]
    /\ GradeIdle
    /\ ZipIdle
    /\ WriterIdle
    /\ LockIdle
    /\ CollectIdle
    /\ NameIdle
    /\ RenameIdle

SetOutputPath ==
    /\ ~pathOut.set
    /\ pathOut' = [set |-> TRUE,
                   output_path |-> output_path(pathIn.submissions_dir,
                                               pathIn.output)]
    /\ UNCHANGED <<pathIn, gradeVars, zipVars, writerVars, lockVars,
                   collectVars, nameVars, renameVars>>

PathNext == SetOutputPath

OutputPathSpec == PathInit /\ [][PathNext]_vars

(***************************************************************************)
(* ResultWriter.write_results on its own, called twice on the same list.   *)
(***************************************************************************)
Formatted(last, first, score) ==
    [last_name |-> last, first_name |-> first, final_score |-> score,
     extra_credit |-> "No extra credit awarded", code_quality |-> "ok",
     requirements_analysis |-> "", point_deductions |-> "No points deducted",
     overall_assessment |-> "fine", areas_for_improvement |-> "\n- none"]

FormattedPool ==
    { Formatted(<<"B">>, <<"C">>, "90.0/100"),
      Formatted(<<"B">>, <<"A">>, "70/100"),
      Formatted(<<"B">>, <<"A">>, "0/100"),
      Formatted(<<"A">>, <<"D">>, "90.0/100") }

ResultLists == UNION { [1..n -> FormattedPool] : n \in 0..MaxRows }

WriterInit ==
    /\ wrIn \in ResultLists
    /\ wrFile \in {NoFile, OldFile}
    /\ wrCalls = 0
    /\ wrFirst = NoFile
    /\ GradeIdle
    /\ ZipIdle
    /\ PathIdle
    /\ LockIdle
    /\ CollectIdle
    /\ NameIdle
    /\ RenameIdle

\* writer.write_results(results, output_path)
CallWriteResults ==
    /\ wrCalls < 2
    /\ wrFile' = write_results(wrIn, wrFile)
    /\ wrCalls' = wrCalls + 1
    /\ wrFirst' = IF wrCalls = 0 THEN wrFile' ELSE wrFirst
    /\ UNCHANGED <<wrIn, gradeVars, zipVars, pathVars, lockVars, collectVars,
                   nameVars, renameVars>>

WriterNext == CallWriteResults

WriterSpec == WriterInit /\ [][WriterNext]_vars

(***************************************************************************)
(* Two pipelines writing their results to the same path: the steps of      *)
(* ThreadSafeWriter.write_safely and of write_csv.                         *)
(***************************************************************************)
Pipelines == {1, 2}

\* f.write at the position of the file object: a record is overwritten,
\* appended, or written past the end of a file another open truncated.
WriteAt(lines, pos, line) ==
    [k \in 1..(IF pos > Len(lines) THEN pos ELSE Len(lines)) |->
        IF k = pos THEN line
        ELSE IF k <= Len(lines) THEN lines[k]
        ELSE [by |-> 0, kind |-> "hole"]]

\* Each grade run builds its own ResultWriter (and so its own
\* ThreadSafeWriter and lock); one ResultWriter can also be used by two
\* threads.
LockInit ==
    /\ writerOf \in {<<1, 2>>, <<1, 1>>}
    /\ lockOwner = <<0, 0>>
    /\ wpc = <<"start", "start">>
    /\ nRows \in [Pipelines -> 1..MaxRows]
    /\ fpos = <<0, 0>>
    /\ diskFile = <<>>
    /\ GradeIdle
    /\ ZipIdle
    /\ PathIdle
    /\ WriterIdle
    /\ CollectIdle
    /\ NameIdle
    /\ RenameIdle

\* with self._lock:
AcquireLock(p) ==
    /\ wpc[p] = "start"
    /\ lockOwner[writerOf[p]] = 0
    /\ lockOwner' = [lockOwner EXCEPT ![writerOf[p]] = p]
    /\ wpc' = [wpc EXCEPT ![p] = "locked"]
    /\ UNCHANGED <<writerOf, nRows, fpos, diskFile,
                   gradeVars, zipVars, pathVars, writerVars, collectVars,
                   nameVars, renameVars>>

\* with open(file_path, 'w') as f: the file is truncated
OpenFile(p) ==
    /\ wpc[p] = "locked"
    /\ diskFile' = <<>>
    /\ fpos' = [fpos EXCEPT ![p] = 1]
    /\ wpc' = [wpc EXCEPT ![p] = "opened"]
    /\ UNCHANGED <<writerOf, lockOwner, nRows,
                   gradeVars, zipVars, pathVars, writerVars, collectVars,
                   nameVars, renameVars>>

\* writer.writeheader()
WriteHeader(p) ==
    /\ wpc[p] = "opened"
    /\ diskFile' = WriteAt(diskFile, fpos[p], [by |-> p, kind |-> "header"])
    /\ fpos' = [fpos EXCEPT ![p] = @ + 1]
    /\ wpc' = [wpc EXCEPT ![p] = "rows"]
    /\ UNCHANGED <<writerOf, lockOwner, nRows,
                   gradeVars, zipVars, pathVars, writerVars, collectVars,
                   nameVars, renameVars>>

\* writer.writerows(rows), one row after the other
WriteRow(p) ==
    /\ wpc[p] = "rows"
    /\ fpos[p] - 2 < nRows[p]
    /\ diskFile' = WriteAt(diskFile, fpos[p], [by |-> p, kind |-> "row"])
    /\ fpos' = [fpos EXCEPT ![p] = @ + 1]
    /\ UNCHANGED <<writerOf, lockOwner, wpc, nRows,
                   gradeVars, zipVars, pathVars, writerVars, collectVars,
                   nameVars, renameVars>>

\* the end of both with blocks: the file is closed, the lock released
CloseFile(p) ==
    /\ wpc[p] = "rows"
    /\ fpos[p] - 2 = nRows[p]
    /\ lockOwner' = [lockOwner EXCEPT ![writerOf[p]] = 0]
    /\ wpc' = [wpc EXCEPT ![p] = "closed"]
    /\ UNCHANGED <<writerOf, nRows, fpos, diskFile,
                   gradeVars, zipVars, pathVars, writerVars, collectVars,
                   nameVars, renameVars>>

LockNext ==
    \/ \E p \in Pipelines : AcquireLock(p)
    \/ \E p \in Pipelines : OpenFile(p)
    \/ \E p \in Pipelines : WriteHeader(p)
    \/ \E p \in Pipelines : WriteRow(p)
    \/ \E p \in Pipelines : CloseFile(p)

LockSpec == LockInit /\ [][LockNext]_vars

(***************************************************************************)
(* collect_btsp.  The name of a subdirectory is given by its pieces        *)
(* between the " - " separators: the head, the middle pieces and the last  *)
(* piece, which holds the date.                                            *)
(***************************************************************************)
Digits == {"0", "1", "2", "3", "4", "5", "6", "7", "8", "9"}

\* \d+-\d+ on the head of the name
HeadMatches(head) ==
    \E k \in 2..(Len(head) - 1) :
        /\ head[k] = "-"
        /\ \A i \in 1..Len(head) : i # k => head[i] \in Digits

\* pattern.match(path.name) for (\d+)-\d+ - (.+) - (.+): the greedy first
\* group takes every middle piece, the second the last piece.
PatternMatch(name) ==
    IF HeadMatches(name.head) /\ name.mids # <<>>
    THEN [matched |-> TRUE,
          group2 |-> Join(name.mids, <<" ", "-", " ">>),
          group3 |-> name.last]
    ELSE [matched |-> FALSE]

\* str.strip()
RECURSIVE LStrip(_)
LStrip(str) ==
    IF str # <<>> /\ Head(str) = " " THEN LStrip(Tail(str)) ELSE str

RECURSIVE RStrip(_)
RStrip(str) ==
    IF str # <<>> /\ str[Len(str)] = " "
    THEN RStrip(SubSeq(str, 1, Len(str) - 1))
    ELSE str

Strip(str) == RStrip(LStrip(str))

\* %b
MonthNumber(mon) ==
    CASE mon = "Sep" -> 9
      [] mon = "Oct" -> 10
      [] OTHER -> 0

\* %I%M on the run of digits before the space: %I is 1[0-2]|0[1-9]|[1-9]
\* and %M is [0-5]\d|\d, tried in that order, so 105 is read as 10:5.
ParseHourMinute(d) ==
    LET twoDigitHour == d[1] * 10 + d[2]
        twoDigitHourOk == (d[1] = 1 /\ d[2] <= 2) \/ (d[1] = 0 /\ d[2] >= 1)
    IN  IF Len(d) = 4
        THEN IF twoDigitHourOk /\ d[3] <= 5
             THEN Return(<<twoDigitHour, d[3] * 10 + d[4]>>)
             ELSE Raise
        ELSE IF Len(d) = 3
        THEN IF twoDigitHourOk THEN Return(<<twoDigitHour, d[3]>>)
             ELSE IF d[1] >= 1 /\ d[2] <= 5
                  THEN Return(<<d[1], d[2] * 10 + d[3]>>)
                  ELSE Raise
        ELSE IF Len(d) = 2
        THEN IF d[1] >= 1 THEN Return(<<d[1], d[2]>>) ELSE Raise
        ELSE Raise

\* datetime.strptime(date_str, '%b %d, %Y %I%M %p'): the datetime as
\* <<year, month, day, hour, minute>>, or ValueError.
strptime(date) ==
    LET hm == ParseHourMinute(date.hhmm)
    IN  IF MonthNumber(date.mon) = 0 \/ hm.raised
           \/ date.ampm \notin {"AM", "PM"}
        THEN Raise
        ELSE Return(<<date.year, MonthNumber(date.mon), date.day,
                      (hm.value[1] % 12) + (IF date.ampm = "PM" THEN 12 ELSE 0),
                      hm.value[2]>>)

\* datetime <= datetime
DateLessOrEqual(a, b) ==
    \/ a = b
    \/ \E k \in 1..5 : a[k] < b[k] /\ \A i \in 1..(k - 1) : a[i] = b[i]

\* datetime < datetime
DateLess(a, b) ==
    \E k \in 1..5 : a[k] < b[k] /\ \A i \in 1..(k - 1) : a[i] = b[i]

\* the position of a student's entry in the dict, or 0
KeyIndex(subs, student) ==
    IF \E k \in 1..Len(subs) : subs[k].student = student
    THEN CHOOSE k \in 1..Len(subs) : subs[k].student = student
    ELSE 0

\* Replacing whatever the date of the recorded submission.
ShouldReplaceAlways(subs, student, date) == TRUE

\* student_name not in student_submissions
\*     or submission_date > student_submissions[student_name][0]
ShouldReplace(subs, student, date) ==
    \/ KeyIndex(subs, student) = 0
    \/ DateLess(subs[KeyIndex(subs, student)].date, date)

\* student_submissions[student_name] = (submission_date, path): a new key
\* goes to the end of the dict, an old key keeps its place.
DictSet(subs, student, date, path) ==
    LET item == [student |-> student, date |-> date, path |-> path]
    IN  IF KeyIndex(subs, student) = 0 THEN Append(subs, item)
        ELSE [subs EXCEPT ![KeyIndex(subs, student)] = item]

\* the body of the scan loop for one entry of an input directory
ScanOne(subs, entry, path) ==
    LET match == PatternMatch(entry.name)
    IN  IF ~entry.isDir \/ ~match.matched THEN subs
        ELSE LET student_name == Strip(match.group2)
                 submission_date == strptime(match.group3)
             IN  IF submission_date.raised THEN subs
                 ELSE IF ShouldReplace(subs, student_name,
                                       submission_date.value)
                 THEN DictSet(subs, student_name, submission_date.value, path)
                 ELSE subs

\* submission_dir.glob('*.zip'), glob('*.java'): in listing order
Glob(files, suffix) == SelectSeq(files, LAMBDA f : EndsWith(f, suffix))

\* Taking the first .java file before looking for a .zip file.
file_to_copy_java_first(files) ==
    IF Glob(files, DotJava) # <<>> THEN Return(Glob(files, DotJava)[1])
    ELSE IF Glob(files, DotZip) # <<>> THEN Return(Glob(files, DotZip)[1])
    ELSE Raise

\* the first .zip file, otherwise the first .java file, otherwise none
file_to_copy(files) ==
    IF Glob(files, DotZip) # <<>> THEN Return(Glob(files, DotZip)[1])
    ELSE IF Glob(files, DotJava) # <<>> THEN Return(Glob(files, DotJava)[1])
    ELSE Raise

\* shutil.copy2(file_to_copy, output_path / file_to_copy.name)
Copy2(dir, name, content) ==
    IF \E k \in 1..Len(dir) : dir[k].name = name
    THEN [k \in 1..Len(dir) |->
             IF dir[k].name = name THEN [name |-> name, content |-> content]
             ELSE dir[k]]
    ELSE Append(dir, [name |-> name, content |-> content])

Sep(day, hhmm, ampm) ==
    [mon |-> "Sep", day |-> day, year |-> 2023, hhmm |-> hhmm, ampm |-> ampm]

\* The subdirectories and files a Brightspace download can hold.  The
\* field expect records what Python gives for the name: whether it is a
\* submission, of which student, and its date.
SubdirPool ==
    { [isDir |-> TRUE,
       name |-> [head |-> <<"1", "0", "-", "7">>, mids |-> <<<<"A">>>>,
                 last |-> Sep(5, <<1, 1, 5, 9>>, "PM")],
       files |-> << <<"M", ".", "j", "a", "v", "a">>,
                    <<"C", ".", "z", "i", "p">> >>,
       expect |-> [valid |-> TRUE, student |-> <<"A">>,
                   when |-> <<2023, 9, 5, 23, 59>>]],
      [isDir |-> TRUE,
       name |-> [head |-> <<"1", "0", "-", "8">>, mids |-> <<<<" ", "A">>>>,
                 last |-> Sep(6, <<1, 2, 0, 0>>, "AM")],
       files |-> << <<"M", ".", "j", "a", "v", "a">> >>,
       expect |-> [valid |-> TRUE, student |-> <<"A">>,
                   when |-> <<2023, 9, 6, 0, 0>>]],
      [isDir |-> TRUE,
       name |-> [head |-> <<"1", "1", "-", "7">>, mids |-> <<<<"B">>>>,
                 last |-> Sep(6, <<1, 0, 5>>, "PM")],
       files |-> << <<"r", ".", "t", "x", "t">> >>,
       expect |-> [valid |-> TRUE, student |-> <<"B">>,
                   when |-> <<2023, 9, 6, 22, 5>>]],
      [isDir |-> TRUE,
       name |-> [head |-> <<"1", "1", "-", "8">>, mids |-> <<<<"B">>>>,
                 last |-> Sep(6, <<2, 3, 0>>, "PM")],
       files |-> << <<"M", ".", "j", "a", "v", "a">> >>,
       expect |-> [valid |-> TRUE, student |-> <<"B">>,
                   when |-> <<2023, 9, 6, 14, 30>>]],
      [isDir |-> TRUE,
       name |-> [head |-> <<"1", "0", "-", "9">>, mids |-> <<<<"A">>>>,
                 last |-> [mon |-> "Sept", day |-> 7, year |-> 2023,
                           hhmm |-> <<1, 2, 0, 0>>, ampm |-> "PM"]],
       files |-> << <<"D", ".", "z", "i", "p">> >>,
       expect |-> [valid |-> FALSE]],
      [isDir |-> TRUE,
       name |-> [head |-> <<"n", "o", "t", "e", "s">>, mids |-> <<>>,
                 last |-> Sep(8, <<1, 2, 0, 0>>, "PM")],
       files |-> << <<"x", ".", "z", "i", "p">> >>,
       expect |-> [valid |-> FALSE]],
      [isDir |-> FALSE,
       name |-> [head |-> <<"i", "n", "d", "e", "x", ".", "h", "t", "m", "l">>,
                 mids |-> <<>>, last |-> Sep(8, <<1, 2, 0, 0>>, "PM")],
       files |-> <<>>,
       expect |-> [valid |-> FALSE]] }

\* an input path: not a directory, or a directory of distinct entries
BrightspaceDirs ==
    { [isDir |-> FALSE, entries |-> <<>>] } \cup
    { [isDir |-> TRUE, entries |-> l] :
        l \in UNION { {m \in [1..n -> SubdirPool] :
                          \A i, j \in 1..n : i # j => m[i].name # m[j].name} :
                      n \in 0..MaxSubdirs } }

\* the paths dir_path.iterdir() yields over all input directories, in order
RECURSIVE AllPaths(_, _)
AllPaths(dirs, d) ==
    IF d > Len(dirs) THEN <<>>
    ELSE [e \in 1..Len(dirs[d].entries) |-> <<d, e>>] \o AllPaths(dirs, d + 1)

Entry(path) == cArgs[path[1]].entries[path[2]]

CollectInit ==
    /\ cArgs \in [1..2 -> BrightspaceDirs]
    /\ cpc = "validate"
    /\ cExit = 0
    /\ scanIdx = 1
    /\ student_submissions = <<>>
    /\ copyIdx = 1
    /\ outDir = <<>>
    /\ copied = <<>>
    /\ GradeIdle
    /\ ZipIdle
    /\ PathIdle
    /\ WriterIdle
    /\ LockIdle
    /\ NameIdle
    /\ RenameIdle

\* the checks of the input directories and output_path.mkdir(exist_ok=True)
CollectValidate ==
    /\ cpc = "validate"
    /\ IF \E d \in 1..Len(cArgs) : ~cArgs[d].isDir
       THEN cpc' = "exited" /\ cExit' = 1
       ELSE cpc' = "scan" /\ UNCHANGED cExit
    /\ UNCHANGED <<cArgs, scanIdx, student_submissions, copyIdx, outDir,
                   copied, gradeVars, zipVars, pathVars, writerVars, lockVars,
                   nameVars, renameVars>>

\* one turn of the loops over brightspace_paths and dir_path.iterdir()
ScanEntry ==
    /\ cpc = "scan"
    /\ scanIdx <= Len(AllPaths(cArgs, 1))
    /\ LET path == AllPaths(cArgs, 1)[scanIdx]
       IN  student_submissions' =
               ScanOne(student_submissions, Entry(path), path)
    /\ scanIdx' = scanIdx + 1
    /\ UNCHANGED <<cArgs, cpc, cExit, copyIdx, outDir, copied,
                   gradeVars, zipVars, pathVars, writerVars, lockVars,
                   nameVars, renameVars>>

\* if not student_submissions: exit 1
CheckFound ==
    /\ cpc = "scan"
    /\ scanIdx > Len(AllPaths(cArgs, 1))
    /\ IF student_submissions = <<>>
       THEN cpc' = "exited" /\ cExit' = 1
       ELSE cpc' = "copy" /\ UNCHANGED cExit
    /\ UNCHANGED <<cArgs, scanIdx, student_submissions, copyIdx, outDir,
                   copied, gradeVars, zipVars, pathVars, writerVars, lockVars,
                   nameVars, renameVars>>

\* one turn of the loop over student_submissions.items()
CopyStudent ==
    /\ cpc = "copy"
    /\ copyIdx <= Len(student_submissions)
    /\ LET item == student_submissions[copyIdx]
           chosen == file_to_copy(Entry(item.path).files)
       IN  IF chosen.raised
           THEN UNCHANGED <<outDir, copied>>
           ELSE /\ outDir' = Copy2(outDir, chosen.value,
                                   [path |-> item.path, name |-> chosen.value])
                /\ copied' = Append(copied, [student |-> item.student,
                                            path |-> item.path,
                                            name |-> chosen.value])
    /\ copyIdx' = copyIdx + 1
    /\ UNCHANGED <<cArgs, cpc, cExit, scanIdx, student_submissions,
                   gradeVars, zipVars, pathVars, writerVars, lockVars,
                   nameVars, renameVars>>

\* the count of the collected files and the closing message
CollectFinish ==
    /\ cpc = "copy"
    /\ copyIdx > Len(student_submissions)
    /\ cpc' = "done"
    /\ UNCHANGED <<cArgs, cExit, scanIdx, student_submissions, copyIdx,
                   outDir, copied, gradeVars, zipVars, pathVars, writerVars,
                   lockVars, nameVars, renameVars>>

CollectNext ==
    \/ CollectValidate
    \/ ScanEntry
    \/ CheckFound
    \/ CopyStudent
    \/ CollectFinish

CollectSpec == CollectInit /\ [][CollectNext]_vars

(***************************************************************************)
(* extract_student_name and split_name on the name of an eligible file.    *)
(***************************************************************************)
StemChars == {"A", "B", "_", " "}

\* the names of the .java and .zip files a directory can hold
EligibleNames ==
    { stem \o suffix :
        stem \in UNION { [1..n -> StemChars] : n \in 1..MaxStem },
        suffix \in {DotJava, DotZip} }

NameInit ==
    /\ nameIn \in EligibleNames
    /\ nameOut = [called |-> FALSE]
    /\ GradeIdle
    /\ ZipIdle
    /\ PathIdle
    /\ WriterIdle
    /\ LockIdle
    /\ CollectIdle
    /\ RenameIdle

\* student_name = extract_student_name(file_path.name) in find_submissions,
\* then split_name(result.student_name) in format_result
SplitStudentName ==
    /\ ~nameOut.called
    /\ nameOut' = [called |-> TRUE,
                   student_name |-> extract_student_name(nameIn),
                   ret |-> split_name(extract_student_name(nameIn))]
    /\ UNCHANGED <<nameIn, gradeVars, zipVars, pathVars, writerVars, lockVars,
                   collectVars, renameVars>>

NameNext == SplitStudentName

NameSpec == NameInit /\ [][NameNext]_vars

(***************************************************************************)
(* rename.  The file system is a set of entries, each with the directory   *)
(* it is in, its name there and the identity of the file it names.         *)
(***************************************************************************)
\* the entries submissions_path.glob('*') can yield
RenamePool ==
    { [name |-> <<"x", ".", "z", "i", "p">>, isFile |-> TRUE],
      [name |-> <<"y", ".", "z", "i", "p">>, isFile |-> TRUE],
      [name |-> <<"A", "_", "B", ".", "z", "i", "p">>, isFile |-> TRUE],
      [name |-> <<"A", "_", "B", "_", "1", ".", "z", "i", "p">>,
       isFile |-> TRUE],
      [name |-> <<"n", ".", "t", "x", "t">>, isFile |-> TRUE],
      [name |-> <<"d", ".", "z", "i", "p">>, isFile |-> FALSE] }

RenameListings ==
    UNION { {l \in [1..n -> RenamePool] :
                \A i, j \in 1..n : i # j => l[i].name # l[j].name} :
            n \in 0..MaxFiles }

\* what analyze_filename can give for a file name: the two strings of the
\* model's JSON answer, whatever they are, (None, None), or an exception
\* of the API call
NameAnswers ==
    { [kind |-> "name", first_name |-> <<"A">>, last_name |-> <<"B">>],
      [kind |-> "name", first_name |-> <<".", ".", "/", "A">>,
       last_name |-> <<"B">>],
      [kind |-> "name", first_name |-> <<"A", "/", "A">>,
       last_name |-> <<"B">>],
      [kind |-> "none"],
      [kind |-> "error"] }

RenameInit ==
    /\ rArgs \in { a \in [dirIsDir : BOOLEAN, listing : RenameListings,
                         dry_run : BOOLEAN, confirm : BOOLEAN] :
                      ~a.dirIsDir => a.listing = <<>> }
    /\ rDir = {[dir |-> "submissions", name |-> rArgs.listing[k].name,
                 id |-> k] : k \in 1..Len(rArgs.listing)}
    /\ rpc = "validate"
    /\ rExit = 0
    /\ rIdx = 1
    /\ rename_operations = <<>>
    /\ renameLog = <<>>
    /\ GradeIdle
    /\ ZipIdle
    /\ PathIdle
    /\ WriterIdle
    /\ LockIdle
    /\ CollectIdle
    /\ NameIdle

\* if not submissions_path.is_dir(): exit 1
RenameValidate ==
    /\ rpc = "validate"
    /\ IF ~rArgs.dirIsDir
       THEN rpc' = "exited" /\ rExit' = 1
       ELSE rpc' = "analyze" /\ UNCHANGED rExit
    /\ UNCHANGED <<rArgs, rDir, rIdx, rename_operations, renameLog,
                   gradeVars, zipVars, pathVars, writerVars, lockVars,
                   collectVars, nameVars>>

\* new_name = f"{first_name}_{last_name}{file_path.suffix}"
NewName(answer, name) ==
    answer.first_name \o <<"_">> \o answer.last_name \o Suffix(name)

HasSep(name) == \E i \in 1..Len(name) : name[i] = "/"

\* the part of a name after its last "/"
RECURSIVE LastComponent(_)
LastComponent(name) ==
    IF ~HasSep(name) THEN name
    ELSE LastComponent(SubSeq(name, 2, Len(name)))

\* file_path.parent / new_name: a plain name is an entry of the
\* submissions directory, "../name" one of its parent directory, and a name
\* with another directory in front of it lies in a directory that is not
\* there
InDir(new_name) ==
    IF ~HasSep(new_name)
    THEN [dir |-> "submissions", name |-> new_name]
    ELSE IF /\ Len(new_name) > 3
            /\ SubSeq(new_name, 1, 3) = <<".", ".", "/">>
            /\ ~HasSep(SubSeq(new_name, 4, Len(new_name)))
         THEN [dir |-> "parent", name |-> SubSeq(new_name, 4, Len(new_name))]
         ELSE [dir |-> "missing", name |-> LastComponent(new_name)]

\* one turn of the loop over glob('*'): an entry that is not a file or has
\* another suffix is passed over; otherwise analyze_filename is called and
\* a rename is planned when it gives both names.  An exception of the API
\* call is not caught: the command ends there.
AnalyzeFile ==
    /\ rpc = "analyze"
    /\ rIdx <= Len(rArgs.listing)
    /\ LET entry == rArgs.listing[rIdx]
       IN  IF ~entry.isFile \/ Suffix(entry.name) \notin {DotJava, DotZip}
           THEN /\ rIdx' = rIdx + 1
                /\ UNCHANGED <<rpc, rExit, rename_operations>>
           ELSE \E answer \in NameAnswers :
                   IF answer.kind = "error"
                   THEN /\ rpc' = "crashed"
                        /\ rExit' = 1
                        /\ UNCHANGED <<rIdx, rename_operations>>
                   ELSE /\ rIdx' = rIdx + 1
                        /\ rename_operations' =
                               IF answer.kind = "name"
                               THEN Append(rename_operations,
                                           [id |-> rIdx,
                                            old |-> InDir(entry.name),
                                            new |-> InDir(NewName(answer,
                                                              entry.name))])
                               ELSE rename_operations
                        /\ UNCHANGED <<rpc, rExit>>
    /\ UNCHANGED <<rArgs, rDir, renameLog,
                   gradeVars, zipVars, pathVars, writerVars, lockVars,
                   collectVars, nameVars>>

\* Going on to the renames although --dry-run was given.
StopsBeforeRenamingUnlessDry(a) == ~a.confirm

\* if dry_run: exit 0; if not typer.confirm(...): exit 0
StopsBeforeRenaming(a) == a.dry_run \/ ~a.confirm

\* the exit when nothing is planned, the listing of the plan, and the
\* exits of the dry run and of the declined confirmation
ShowPlan ==
    /\ rpc = "analyze"
    /\ rIdx > Len(rArgs.listing)
    /\ IF rename_operations = <<>> \/ StopsBeforeRenaming(rArgs)
       THEN rpc' = "exited" /\ UNCHANGED rIdx
       ELSE rpc' = "rename" /\ rIdx' = 1
    /\ UNCHANGED <<rArgs, rDir, rExit, rename_operations, renameLog,
                   gradeVars, zipVars, pathVars, writerVars, lockVars,
                   collectVars, nameVars>>

\* str(counter)
DigitChar(n) == <<"0", "1", "2", "3", "4", "5", "6", "7", "8", "9">>[n + 1]

\* new_path.exists()
Exists(fs, path) == \E e \in fs : e.dir = path.dir /\ e.name = path.name

\* while new_path.exists():
\*     new_path = new_path.parent / f"{new_path.stem}_{counter}{suffix}"
RECURSIVE FreeName(_, _, _)
FreeName(fs, new_path, counter) ==
    IF ~Exists(fs, new_path) THEN new_path
    ELSE FreeName(fs,
                  [dir |-> new_path.dir,
                   name |-> Stem(new_path.name) \o
                            <<"_", DigitChar(counter)>> \o
                            Suffix(new_path.name)],
                  counter + 1)

\* old_path.rename(new_path): the entry gets the new directory and name;
\* an entry that was there is replaced
RenameEntry(fs, old, new) ==
    LET moved == CHOOSE e \in fs : e.dir = old.dir /\ e.name = old.name
    IN  {e \in fs : ~(e.dir = old.dir /\ e.name = old.name) /\
                     ~(e.dir = new.dir /\ e.name = new.name)} \cup
        {[dir |-> new.dir, name |-> new.name, id |-> moved.id]}

\* one turn of the loop over rename_operations.items(); a rename into a
\* directory that is not there raises, and the exception is logged
RenameOne ==
    /\ rpc = "rename"
    /\ rIdx <= Len(rename_operations)
    /\ LET op == rename_operations[rIdx]
           new_path == FreeName(rDir, op.new, 1)
           raised == new_path.dir = "missing"
       IN  /\ rDir' = IF raised THEN rDir
                      ELSE RenameEntry(rDir, op.old, new_path)
           /\ renameLog' = Append(renameLog,
                                  [id |-> op.id, old |-> op.old,
                                   new |-> new_path,
                                   existed |-> Exists(rDir, new_path),
                                   raised |-> raised])
    /\ rIdx' = rIdx + 1
    /\ UNCHANGED <<rArgs, rpc, rExit, rename_operations,
                   gradeVars, zipVars, pathVars, writerVars, lockVars,
                   collectVars, nameVars>>

\* "Rename operations completed!"
RenameFinish ==
    /\ rpc = "rename"
    /\ rIdx > Len(rename_operations)
    /\ rpc' = "done"
    /\ UNCHANGED <<rArgs, rDir, rExit, rIdx, rename_operations, renameLog,
                   gradeVars, zipVars, pathVars, writerVars, lockVars,
                   collectVars, nameVars>>

RenameNext ==
    \/ RenameValidate
    \/ AnalyzeFile
    \/ ShowPlan
    \/ RenameOne
    \/ RenameFinish

RenameSpec == RenameInit /\ [][RenameNext]_vars

(***************************************************************************)
(* Definitions the claims share.                                           *)
(***************************************************************************)
InvalidArgs ==
    \/ ~args.dirIsDir
    \/ ~args.rubricIsFile
    \/ args.max_points <= 0
    \/ args.threads <= 0

Terminated == pc \in {"done", "exited"}

AfterBarrier == {"drain", "sort", "write", "done"}

NameEndsInJava(n) ==
    /\ Len(n) >= 5
    /\ n[Len(n) - 4] = "." /\ n[Len(n) - 3] = "j" /\ n[Len(n) - 2] = "a"
    /\ n[Len(n) - 1] = "v" /\ n[Len(n)] = "a"

\* pathlib suffix .java or .zip: the name ends in it and has a stem
HasSuffixJava(n) == Len(n) > 5 /\ NameEndsInJava(n)

HasSuffixZip(n) ==
    /\ Len(n) > 4
    /\ n[Len(n) - 3] = "." /\ n[Len(n) - 2] = "z" /\ n[Len(n) - 1] = "i"
    /\ n[Len(n)] = "p"

\* K: the direct entries of the directory with suffix .java or .zip
EligibleEntries ==
    {k \in 1..Len(args.listing) :
        HasSuffixJava(args.listing[k].name) \/ HasSuffixZip(args.listing[k].name)}

\* the eligible entries that can be read or unpacked
ReadableEntries ==
    {k \in EligibleEntries :
        LET f == args.listing[k]
        IN  IF HasSuffixZip(f.name)
            THEN /\ f.content.type = "archive"
                 /\ \A e \in 1..Len(f.content.entries) :
                       NameEndsInJava(f.content.entries[e].filename)
                           => f.content.entries[e].data.type = "text"
            ELSE f.content.type = "text"}

PutUnits == {i \in Units : putRow[i].put}

GradingFailed(i) == gres[i] \in {"raised", "noscore"}

Count(seq, x) == Cardinality({k \in 1..Len(seq) : seq[k] = x})

SameBag(a, b) ==
    /\ Len(a) = Len(b)
    /\ \A k \in 1..Len(a) : Count(a, a[k]) = Count(b, a[k])

\* the rows this run wrote to the CSV
WrittenRows == IF writes = 0 THEN <<>> ELSE Rows(outFile)

\* the rows the units put, in discovery order
RowsInDiscoveryOrder ==
    LET kept == SelectSeq([i \in Units |-> putRow[i]], LAMBDA p : p.put)
    IN  [k \in 1..Len(kept) |-> kept[k].row]

\* the rows determined by each submission and the oracle's answer to it
RowsOfAnswers ==
    LET all == [i \in Units |->
                   format_result(grade_submission(submissions[i], gres[i],
                                                  args.max_points))]
        kept == SelectSeq(all, LAMBDA f : ~f.raised)
    IN  [k \in 1..Len(kept) |-> CsvRow(kept[k].value)]

(***************************************************************************)
(* The claims.                                                             *)
(***************************************************************************)
\* C1: when the grade command completes, the written CSV holds exactly one
\* row per submission find_submissions returned.  (Violated: a result whose
\* formatting raises is logged and puts no row.)
C1_OneRowPerSubmission ==
    pc = "done" =>
        /\ writes = 1
        /\ outFile.exists
        /\ Len(Rows(outFile)) = Len(submissions)

\* C2: a submission whose grading failed (grade_assignment raised, or its
\* result lacks a required key) has in its row the score "0/<max_points>"
\* and the assessment "Failed to grade submission"; the row of any other
\* submission holds the score and the texts of the oracle's answer to that
\* submission alone; and these rows are the ones the CSV holds.
C2_FailureGivesPlaceholderRow ==
    /\ \A i \in PutUnits :
          IF GradingFailed(i)
          THEN /\ putRow[i].row.final_score = "0/" \o ToString(args.max_points)
               /\ putRow[i].row.overall_assessment = "Failed to grade submission"
          ELSE /\ putRow[i].row.final_score =
                      NumStr(Payload(gres[i]).final_score) \o "/" \o
                      ToString(args.max_points)
               /\ putRow[i].row.overall_assessment =
                      Payload(gres[i]).overall_assessment
               /\ putRow[i].row.code_quality = Payload(gres[i]).code_quality
    /\ pc = "done" =>
          \A i \in PutUnits : Count(Rows(outFile), CsvRow(putRow[i].row)) >= 1

C2_Witness ==
    /\ pc = "done"
    /\ \E i, j \in PutUnits :
          /\ i # j
          /\ GradingFailed(i)
          /\ gres[j] = "parsed"
          /\ Count(Rows(outFile), CsvRow(putRow[i].row)) = 1
          /\ Count(Rows(outFile), CsvRow(putRow[j].row)) = 1

\* C3 as stated: the external grading service is called at most once per
\* submission.
C3_AtMostOneCall == \A i \in Units : Len(calls[i]) <= 1

\* C3 as amended: per submission the Responses API is called at most once
\* and, only after that call failed, the Chat Completions API at most once;
\* the placeholder follows only a failed fallback call or a result without
\* a required key.
C3_AtMostOneFallbackCall ==
    \A i \in Units :
        /\ Len(calls[i]) <= 2
        /\ Len(calls[i]) >= 1 => calls[i][1].api = "responses"
        /\ Len(calls[i]) = 2 => /\ ~calls[i][1].ok
                                /\ calls[i][2].api = "chat"
        /\ GradingFailed(i) => /\ Len(calls[i]) = 2
                               /\ gres[i] = "raised" => ~calls[i][2].ok

C3_Witness ==
    \E i \in PutUnits :
        /\ Len(calls[i]) = 2
        /\ gres[i] = "raised"
        /\ putRow[i].row.overall_assessment = "Failed to grade submission"

\* C4: with an invalid directory, an invalid rubric file, max_points <= 0
\* or threads <= 0 the command only exits with status 1: discovery is not
\* run, no unit exists, no oracle call is made and the output file is what
\* it was.
C4_InvalidArgsExitBeforeWork ==
    InvalidArgs =>
        /\ pc \in {"validate", "exited"}
        /\ pc = "exited" => exitCode = 1
        /\ discoveryRuns = 0
        /\ submissions = <<>>
        /\ \A i \in DOMAIN calls : calls[i] = <<>>
        /\ writes = 0
        /\ outFile = outFile0

C4_Witness ==
    /\ pc = "exited"
    /\ exitCode = 1
    /\ args.dirIsDir /\ args.rubricIsFile
    /\ args.max_points = 0
    /\ args.threads > 0
    /\ Len(args.listing) = MaxEntries
    /\ outFile0 = OldFile

C6_RowsIndependentOfThreads ==
    pc = "done" => SameBag(WrittenRows, RowsOfAnswers)

C6_Witness ==
    /\ pc = "done"
    /\ args.threads > 1
    /\ Len(WrittenRows) = 2
    /\ arrival = <<2, 1>>

\* C7: the sequence of rows written is the one written when the same rows
\* arrive in discovery order (as they do with one thread): it does not
\* depend on the order of arrival in the queue.  (Violated: rows with equal
\* last and first name keep their order of arrival.)
C7_RowOrderIndependentOfArrival ==
    (pc = "done" /\ writes = 1) =>
        LET sorted == StableSort(StableSort(RowsInDiscoveryOrder, "last_name"),
                                 "name")
        IN  Rows(outFile) = [k \in 1..Len(sorted) |-> CsvRow(sorted[k])]

\* C8: while the queue is drained, the results sorted or the file written,
\* every unit has finished; before that nothing is drained or written.
C8_BarrierBeforeDrain ==
    /\ pc \in AfterBarrier => \A i \in Units : upc[i] = "done"
    /\ pc \notin AfterBarrier => results = <<>> /\ writes = 0

C8_Witness ==
    /\ pc = "drain"
    /\ Len(submissions) = 2
    /\ args.threads = 2
    /\ arrival = <<2, 1>>

\* C9: no unit is started twice, every unit has been started once when the
\* barrier is passed, and once the units are being submitted the command
\* reaches the write step.
C9_EveryUnitRunsAndWriteIsReached ==
    /\ [](\A i \in Units : starts[i] <= 1)
    /\ [](pc \in AfterBarrier => \A i \in Units : starts[i] = 1)
    /\ (pc = "submit") ~> (pc = "write")

C9_Witness ==
    /\ pc = "write"
    /\ Len(submissions) = 2
    /\ \A i \in Units : starts[i] = 1 /\ upc[i] = "done"

\* C10: process_zip_file on an archive whose .java entries decode returns
\* one SubmissionFile per entry whose name ends in .java, in archive order,
\* with the entry's name and decoded content, and nothing else.
C10_ZipReturnsJavaEntriesInOrder ==
    (/\ zipOut.called
     /\ zipIn.type = "archive"
     /\ \A e \in 1..Len(zipIn.entries) :
           NameEndsInJava(zipIn.entries[e].filename)
               => zipIn.entries[e].data.type = "text") =>
        LET J == {e \in 1..Len(zipIn.entries) :
                     NameEndsInJava(zipIn.entries[e].filename)}
            nth(k) == CHOOSE e \in J : Cardinality({d \in J : d < e}) = k - 1
        IN  /\ ~zipOut.ret.raised
            /\ Len(zipOut.ret.value) = Cardinality(J)
            /\ \A k \in 1..Cardinality(J) :
                  /\ zipOut.ret.value[k].filename = zipIn.entries[nth(k)].filename
                  /\ zipOut.ret.value[k].content = zipIn.entries[nth(k)].data.text

C10_Witness ==
    /\ zipOut.called
    /\ zipIn.type = "archive"
    /\ Len(zipIn.entries) = 3
    /\ ~zipOut.ret.raised
    /\ Len(zipOut.ret.value) = 2
    /\ zipOut.ret.value[1].filename # zipOut.ret.value[2].filename

\* C11: find_submissions returns exactly one Submission for each eligible
\* entry that was read, in directory listing order; an eligible entry whose
\* read or extraction fails gives no Submission (so no unit and no row), and
\* the entries after it are still discovered.
C11_FailedEntriesAreSkipped ==
    discoveryRuns = 1 =>
        LET R == ReadableEntries
            nth(k) == CHOOSE e \in R : Cardinality({d \in R : d < e}) = k - 1
        IN  /\ Len(submissions) = Cardinality(R)
            /\ \A k \in 1..Len(submissions) :
                  submissions[k].original_path = args.listing[nth(k)].name
            /\ \A e \in EligibleEntries \ R :
                  \A k \in 1..Len(submissions) :
                      submissions[k].original_path # args.listing[e].name

C11_Witness ==
    /\ discoveryRuns = 1
    /\ Len(args.listing) = 2
    /\ EligibleEntries = {1, 2}
    /\ ReadableEntries = {2}
    /\ Len(submissions) = 1
    /\ submissions[1].original_path = args.listing[2].name

\* the units whose try block ended without a row being put
UnitRaised(i) == upc[i] \in {"finally", "done"} /\ ~putRow[i].put

\* C14: the queue neither loses nor duplicates rows: until it is drained it
\* holds each row a worker put exactly once, and the drained list holds
\* each of them exactly once, whatever the order of the puts.
C14_QueueKeepsEachRowOnce ==
    IF pc \in {"sort", "write", "done"}
    THEN /\ result_queue = <<>>
         /\ Len(results) = Cardinality(PutUnits)
         /\ SameBag(results, RowsInDiscoveryOrder)
    ELSE /\ results = <<>>
         /\ Len(result_queue) = Cardinality(PutUnits)
         /\ SameBag(result_queue, RowsInDiscoveryOrder)

C14_Witness ==
    /\ pc = "sort"
    /\ args.threads = 2
    /\ arrival = <<2, 1>>
    /\ Len(results) = 2
    /\ results[1] = putRow[2].row
    /\ results[2] = putRow[1].row

\* C15: once a unit has raised inside grading or formatting, every unit is
\* still run to its end (started once, finished) and the command reaches
\* the write step.
C15_FailureDoesNotAbortOthers ==
    (/\ pc # "done"
     /\ \E i \in Units : UnitRaised(i) \/ (upc[i] \in {"finally", "done"}
                                            /\ GradingFailed(i)))
        ~> (/\ pc = "write"
            /\ \A j \in Units : upc[j] = "done" /\ starts[j] = 1)

C15_Witness ==
    /\ pc = "write"
    /\ Len(submissions) = 2
    /\ arrival = <<2>>
    /\ UnitRaised(1)
    /\ upc[2] = "done"
    /\ gres[2] = "parsed"

\* C17: the completed count never decreases, counts each finished unit
\* exactly once whether it put a row, a placeholder row or nothing, and is
\* the number of discovered submissions once the barrier is passed.
C17_ProgressCountsEachUnitOnce ==
    /\ [][progress' >= progress]_vars
    /\ [](progress = Cardinality({i \in Units : upc[i] = "done"}))
    /\ [](pc \in AfterBarrier => progress = Len(submissions))

C17_Witness ==
    /\ pc = "drain"
    /\ progress = 2
    /\ \E i, j \in Units :
          /\ UnitRaised(i)
          /\ putRow[j].put
          /\ GradingFailed(j)

\* C16 as stated: when an oracle call never returns, every other unit is
\* still graded and finishes (its row put in the queue), for every number
\* of workers.
C16_HungCallBlocksNoOther ==
    (hungUnit # 0) ~> (\A j \in Units \ {hungUnit} : upc[j] = "done")

\* C16 as amended: with at least two workers a call that never returns
\* keeps one worker and every other unit is still graded and finishes;
\* the barrier is then never passed.
C16_HungCallKeepsOneWorker ==
    /\ (hungUnit # 0 /\ args.threads >= 2)
           ~> (\A j \in Units \ {hungUnit} : upc[j] = "done")
    /\ [](hungUnit # 0 =>
              /\ pc \notin AfterBarrier
              /\ Cardinality({j \in Units : upc[j] = "hung"}) = 1)

C16_Witness ==
    /\ hungUnit = 1
    /\ args.threads = 2
    /\ Len(submissions) = 2
    /\ upc[2] = "done"
    /\ putRow[2].put
    /\ result_queue = <<putRow[2].row>>
    /\ pc = "wait"

\* C18: when grade is run without an output path, the results file is
\* grading_results.csv in the submissions directory.  (Violated: it is put
\* in the parent of the submissions directory.)
C18_DefaultOutputInSubmissionsDir ==
    (pathOut.set /\ ~pathIn.output.given) =>
        pathOut.output_path =
            [abs |-> pathIn.submissions_dir.abs,
             parts |-> SelectSeq(pathIn.submissions_dir.comps,
                                 LAMBDA c : c # ".")
                       \o <<"grading_results.csv">>]

\* C19: write_results called a second time with the same list and the same
\* path leaves the file as the first call left it: the file is replaced,
\* not appended to, and sorting the same list again gives the same rows.
C19_WriteResultsIdempotent ==
    wrCalls = 2 =>
        /\ wrFile = wrFirst
        /\ wrIn # <<>> => /\ Len(wrFile.lines) = Len(wrIn) + 1
                          /\ Len(Rows(wrFile)) = Len(wrIn)

C19_Witness ==
    /\ wrCalls = 2
    /\ Len(wrIn) = 3
    /\ wrIn[1].last_name = <<"B">> /\ wrIn[3].last_name = <<"A">>
    /\ wrFile = wrFirst
    /\ Len(wrFile.lines) = 4

\* C20: a CSV written by write_results starts with the one header record,
\* the fixed field names, and every record after it is a data record; the
\* data records are in nondecreasing order of (Last Name, First Name).
C20_RowsSortedAfterOneHeader ==
    (wrCalls >= 1 /\ wrIn # <<>>) =>
        /\ wrFile.exists
        /\ wrFile.lines[1] = [kind |-> "header", cells |-> fieldnames]
        /\ \A k \in 2..Len(wrFile.lines) : wrFile.lines[k].kind = "row"
        /\ \A k \in 1..(Len(Rows(wrFile)) - 1) :
              LET a == Rows(wrFile)[k]
                  b == Rows(wrFile)[k + 1]
              IN  \/ StrLess(a[1], b[1])
                  \/ (a[1] = b[1] /\ (StrLess(a[2], b[2]) \/ a[2] = b[2]))

C20_Witness ==
    /\ wrCalls = 1
    /\ Len(wrIn) = 3
    /\ wrIn[1].last_name = <<"B">> /\ wrIn[1].first_name = <<"C">>
    /\ wrIn[2].last_name = <<"B">> /\ wrIn[2].first_name = <<"A">>
    /\ wrIn[3].last_name = <<"A">>
    /\ Rows(wrFile)[1][1] = <<"A">>
    /\ Rows(wrFile)[2][2] = <<"A">>
    /\ Rows(wrFile)[3][2] = <<"C">>

\* C13: two pipelines that write to the same path, each with its own
\* ResultWriter, are never both between opening the file and closing it,
\* and the file one of them has closed holds the records of one pipeline
\* only.  (Violated: each ResultWriter has a lock of its own.)
C13_WritesMutuallyExclusive ==
    writerOf[1] # writerOf[2] =>
        /\ ~(wpc[1] \in {"opened", "rows"} /\ wpc[2] \in {"opened", "rows"})
        /\ (wpc[1] = "closed" /\ wpc[2] = "closed") =>
              \E p \in Pipelines :
                  /\ Len(diskFile) = nRows[p] + 1
                  /\ \A k \in 1..Len(diskFile) : diskFile[k].by = p

\* the subdirectories that are submissions, and those of one student
SubmissionPaths ==
    {AllPaths(cArgs, 1)[k] : k \in 1..Len(AllPaths(cArgs, 1))} \cap
    {p \in (1..2) \X (1..MaxSubdirs) :
        /\ p[2] <= Len(cArgs[p[1]].entries)
        /\ Entry(p).expect.valid}

PathsOf(student) ==
    {p \in SubmissionPaths : Entry(p).expect.student = student}

\* C12: when collect has ended, for each student with a submission
\* directory in any input directory the dict holds one of that student's
\* directories with the latest date; from that directory the first .zip
\* file is copied when it holds one, otherwise the first .java file when
\* it holds one; and no copy comes from any other directory.
C12_LatestSubmissionZipFirst ==
    cpc = "done" =>
        /\ \A p \in SubmissionPaths :
              \E k \in 1..Len(student_submissions) :
                  LET sel == student_submissions[k]
                      mine == PathsOf(Entry(p).expect.student)
                      files == Entry(sel.path).files
                      made == {c \in 1..Len(copied) : copied[c].path = sel.path}
                      zips == {f \in 1..Len(files) : EndsWith(files[f], DotZip)}
                      javas == {f \in 1..Len(files) : EndsWith(files[f], DotJava)}
                  IN  /\ sel.path \in mine
                      /\ \A q \in mine :
                            ~DateLess(Entry(sel.path).expect.when,
                                      Entry(q).expect.when)
                      /\ IF zips # {}
                         THEN /\ Cardinality(made) = 1
                              /\ \A c \in made :
                                    \E f \in zips : copied[c].name = files[f]
                         ELSE IF javas # {}
                         THEN /\ Cardinality(made) = 1
                              /\ \A c \in made :
                                    \E f \in javas : copied[c].name = files[f]
                         ELSE made = {}
        /\ \A c \in 1..Len(copied) :
              \E k \in 1..Len(student_submissions) :
                  /\ copied[c].path = student_submissions[k].path
                  /\ \A j \in 1..Len(student_submissions) :
                        student_submissions[j].path = copied[c].path => j = k

C12_Witness ==
    /\ cpc = "done"
    /\ Len(student_submissions) = 2
    /\ \E p, q \in PathsOf(<<"A">>) :
          /\ p[1] = 1 /\ q[1] = 2
          /\ DateLess(Entry(q).expect.when, Entry(p).expect.when)
          /\ \E f \in 1..Len(Entry(q).files) : EndsWith(Entry(q).files[f], DotZip)
          /\ \E c \in 1..Len(copied) :
                copied[c].path = p /\ EndsWith(copied[c].name, DotJava)
          /\ \A c \in 1..Len(copied) : copied[c].path # q

\* C22: at every moment at most args.threads units are between their start
\* and the end of their finally clause, and once the list of submissions
\* has been handed to the executor nothing more is submitted: the list of
\* submissions is fixed and the work queue only shrinks.
C22_AtMostThreadsRunning ==
    /\ [](\/ {i \in Units : upc[i] \in Running} = {}
          \/ Cardinality({i \in Units : upc[i] \in Running}) <= args.threads)
    /\ [][pc \notin {"discover", "submit"} =>
              /\ submissions' = submissions
              /\ nextSubmit' = nextSubmit
              /\ Len(workQueue') <= Len(workQueue)
              /\ \A i \in Units : upc[i] # "new" /\ upc'[i] # "new"]_vars

C22_Witness ==
    /\ pc = "wait"
    /\ args.threads = 2
    /\ Len(submissions) = 2
    /\ upc[1] = "call2"
    /\ upc[2] = "call1"

\* the score texts a row of this run can hold
ScoreOf(i) ==
    IF GradingFailed(i) THEN Int_(0) ELSE Payload(gres[i]).final_score

\* C25: the Final Score of every row, of a result or of a placeholder, is
\* the score, a slash and the max_points given to the command: never the
\* max_points of the oracle's answer.
C25_ScoreOverConfiguredMax ==
    /\ \A i \in PutUnits :
          putRow[i].row.final_score =
              NumStr(ScoreOf(i)) \o "/" \o ToString(args.max_points)
    /\ (pc = "done" /\ writes = 1) =>
          \A k \in 1..Len(Rows(outFile)) :
              \E i \in PutUnits :
                  Rows(outFile)[k][3] =
                      NumStr(ScoreOf(i)) \o "/" \o ToString(args.max_points)

C25_Witness ==
    /\ pc = "done"
    /\ writes = 1
    /\ args.max_points # OracleMaxPoints
    /\ \E i, j \in PutUnits :
          /\ gres[i] = "legacy"
          /\ "max_points" \in DOMAIN Payload(gres[i])
          /\ putRow[i].row.final_score = "70/100"
          /\ gres[j] = "raised"
          /\ putRow[j].row.final_score = "0/100"

\* C27: when find_submissions returns nothing the grade command exits with
\* status 1, no unit exists, no oracle call is made and the output file is
\* what it was; and when write_results is given an empty list the output
\* file is what it was.
C27_NothingFoundNothingWritten ==
    /\ (discoveryRuns = 1 /\ submissions = <<>>) =>
          /\ pc = "exited" /\ exitCode = 1
          /\ Units = {} /\ workQueue = <<>> /\ result_queue = <<>>
          /\ \A i \in DOMAIN calls : calls[i] = <<>>
          /\ writes = 0
          /\ outFile = outFile0
    /\ (pc = "done" /\ results = <<>>) =>
          /\ writes = 0
          /\ outFile = outFile0

C27_Witness ==
    /\ pc = "exited"
    /\ discoveryRuns = 1
    /\ submissions = <<>>
    /\ Len(args.listing) = 2
    /\ EligibleEntries # {}
    /\ outFile0 = OldFile
    /\ outFile = OldFile

\* the students whose recorded directory holds a .zip or a .java file
StudentsWithFile ==
    {k \in 1..Len(student_submissions) :
        \E f \in 1..Len(Entry(student_submissions[k].path).files) :
            \/ EndsWith(Entry(student_submissions[k].path).files[f], DotZip)
            \/ EndsWith(Entry(student_submissions[k].path).files[f], DotJava)}

\* C23: after collect the output directory holds one file for each student
\* whose latest submission directory holds a .zip or .java file, each the
\* file copied for that student.  (Violated: the copy keeps the file's own
\* name, so two students' files of the same name overwrite each other.)
C23_OneFilePerStudent ==
    cpc = "done" =>
        /\ Len(copied) = Cardinality(StudentsWithFile)
        /\ Len(outDir) = Cardinality(StudentsWithFile)
        /\ \A c \in 1..Len(copied) :
              \E k \in 1..Len(outDir) :
                  /\ outDir[k].name = copied[c].name
                  /\ outDir[k].content.path = copied[c].path

\* the position of a path in the order of the scan
ScanPos(path) ==
    CHOOSE k \in 1..Len(AllPaths(cArgs, 1)) : AllPaths(cArgs, 1)[k] = path

\* a date <<year, month, day, hour, minute>> as minutes on one time line
Minutes(t) ==
    ((((t[1] - 2000) * 12 + t[2]) * 31 + t[3]) * 24 + t[4]) * 60 + t[5]

\* the submission directories the scan has looked at so far
Scanned == {p \in SubmissionPaths : ScanPos(p) < scanIdx}

\* C28: at every point of the scan the dict holds exactly one entry per
\* student with a submission directory among those looked at, and it is
\* the first directory, in scan order, among that student's directories
\* with the latest date: a directory whose name does not match or whose
\* date does not parse is never recorded, and a recorded directory gives
\* way only to one with a strictly later date.
C28_OnlyStrictlyLaterReplaces ==
    cpc \in {"scan", "copy", "done"} =>
        /\ \A k \in 1..Len(student_submissions) :
              LET sel == student_submissions[k].path
                  mine == {p \in Scanned :
                              Entry(p).expect.student = Entry(sel).expect.student}
              IN  /\ sel \in Scanned
                  /\ student_submissions[k].date = Entry(sel).expect.when
                  /\ \A q \in mine :
                        \/ Minutes(Entry(q).expect.when) <
                               Minutes(Entry(sel).expect.when)
                        \/ /\ Entry(q).expect.when = Entry(sel).expect.when
                           /\ ScanPos(sel) <= ScanPos(q)
                  /\ \A j \in 1..Len(student_submissions) :
                        student_submissions[j].path \in mine => j = k
        /\ \A p \in Scanned :
              \E k \in 1..Len(student_submissions) :
                  Entry(student_submissions[k].path).expect.student =
                      Entry(p).expect.student

C28_Witness ==
    /\ cpc = "copy"
    /\ Len(student_submissions) = 1
    /\ student_submissions[1].path = <<1, 1>>
    /\ Len(cArgs[2].entries) = 2
    /\ Entry(<<2, 1>>).expect.valid
    /\ Entry(<<2, 1>>).expect.when = Entry(<<1, 1>>).expect.when
    /\ Entry(<<2, 1>>).expect.student = Entry(<<1, 1>>).expect.student
    /\ ~Entry(<<2, 2>>).expect.valid
    /\ Entry(<<2, 2>>).isDir
    /\ Entry(<<2, 2>>).name.mids # <<>>

\* the whitespace-separated tokens of a name: where they start and end
TokenStarts(name) ==
    {i \in 1..Len(name) : name[i] # " " /\ (i = 1 \/ name[i - 1] = " ")}

TokenEnds(name) ==
    {j \in 1..Len(name) : name[j] # " " /\ (j = Len(name) \/ name[j + 1] = " ")}

NthToken(name, k) ==
    LET i == CHOOSE a \in TokenStarts(name) :
                 Cardinality({b \in TokenStarts(name) : b < a}) = k - 1
        j == CHOOSE a \in TokenEnds(name) :
                 Cardinality({b \in TokenEnds(name) : b < a}) = k - 1
    IN  SubSeq(name, i, j)

\* C24: for the student name of every eligible file name (the stem with
\* underscores replaced by spaces) split_name does not raise and returns
\* the last token as last_name and the other tokens, joined by single
\* spaces, as first_name.  (Violated: a stem of underscores and spaces
\* gives a name without tokens and split_name raises IndexError.)
C24_SplitNameTotal ==
    nameOut.called =>
        LET name == nameOut.student_name
            n == Cardinality(TokenStarts(name))
            firsts[k \in 0..(n - 1)] ==
                IF k = 0 THEN <<>>
                ELSE IF k = 1 THEN NthToken(name, 1)
                ELSE firsts[k - 1] \o <<" ">> \o NthToken(name, k)
        IN  /\ name = Replace(SubSeq(nameIn, 1, Len(nameIn) -
                                    (IF EndsWith(nameIn, DotZip) THEN 4 ELSE 5)),
                              "_", " ")
            /\ ~nameOut.ret.raised
            /\ nameOut.ret.value.last_name = NthToken(name, n)
            /\ nameOut.ret.value.first_name = firsts[n - 1]

\* the entries of the submissions directory, now and before the command
InSubmissions == {e \in rDir : e.dir = "submissions"}

NamesNow == {e.name : e \in InSubmissions}

NamesBefore == {rArgs.listing[k].name : k \in 1..Len(rArgs.listing)}

\* C21: with --dry-run no file is renamed: at every point of the command
\* the directory holds the names, each for the same file, it held before,
\* whatever renames are planned.
C21_DryRunRenamesNothing ==
    rArgs.dry_run =>
        /\ rDir = InSubmissions
        /\ NamesNow = NamesBefore
        /\ \A e \in rDir : rArgs.listing[e.id].name = e.name
        /\ renameLog = <<>>
        /\ rpc \notin {"rename", "done"}

C21_Witness ==
    /\ rArgs.dry_run
    /\ rArgs.confirm
    /\ rpc = "exited"
    /\ rExit = 0
    /\ Len(rename_operations) = 2
    /\ rename_operations[1].new = rename_operations[2].new
    /\ rename_operations[1].old # rename_operations[1].new
    /\ NamesNow = NamesBefore

\* C26: when the renames have been executed the directory holds as many
\* entries as before and every file it held; each planned file is there
\* under the name it was renamed to, a name no entry had at the moment of
\* the rename; every other file has kept its name.
C26_RenameNeverOverwrites ==
    rpc = "done" =>
        /\ Cardinality(InSubmissions) = Len(rArgs.listing)
        /\ {e.id : e \in InSubmissions} = 1..Len(rArgs.listing)
        /\ Len(renameLog) = Len(rename_operations)
        /\ \A k \in 1..Len(renameLog) :
              /\ ~renameLog[k].existed
              /\ renameLog[k].id = rename_operations[k].id
              /\ [dir |-> "submissions", name |-> renameLog[k].new.name,
                  id |-> renameLog[k].id] \in rDir
        /\ \A e \in InSubmissions :
              (\A k \in 1..Len(rename_operations) :
                   rename_operations[k].id # e.id)
                  => rArgs.listing[e.id].name = e.name

====
